---- MODULE Spec2Model ----
(***************************************************************************)
(* A model of the demonstration game of the repository: the generic        *)
(* Inventory (items/Inventory.ts), the characters                          *)
(* (characters/BaseCharacter.ts, characters/PlayerCharacters.ts), the      *)
(* combat resolver (combat/CombatSystem.ts), the game session and its loop *)
(* (game/Game.ts) with the decorators (utils/decorators.ts), and the       *)
(* fetchWithRetry function of the unit-testing exercise.                   *)
(***************************************************************************)
EXTENDS Integers, Sequences, FiniteSets, TLC

VARIABLES items, call, chars, elapsed, act,
          fighters, participants, currentTurn, combatLog, phase, thrown, result,
          objects, stores, saveFile, session, retry

invVars == <<items, call>>
charVars == <<chars, elapsed, act>>
combatVars == <<fighters, participants, currentTurn, combatLog, phase, thrown, result>>
ownVars == <<objects, stores>>
gameVars == <<saveFile, session>>
retryVars == <<retry>>
vars == <<items, call, chars, elapsed, act,
          fighters, participants, currentTurn, combatLog, phase, thrown, result,
          objects, stores, saveFile, session, retry>>

(***************************************************************************)
(* Bounds of the model.                                                    *)
(***************************************************************************)
\* maxSlots of the modelled inventory (constructor argument).
MaxSlots == 2

\* One more id than there are slots, so that a new id can meet a full inventory.
Ids == 1..(MaxSlots + 1)

\* The ids under which the callers construct Consumables (potions); Weapons
\* are constructed under every id, so an id can meet an entry of the other class.
ConsumableIds == {1}

\* Quantities of the Consumables handed to addItem.
ConsumableQuantities == {0, 1, 50, 60, 100}

\* Quantities of the Weapons handed to addItem.
WeaponQuantities == {1, 2}

\* Quantities asked of removeItem (1 is the default argument).
RemoveQuantities == {0, 1, 50, 100}

(***************************************************************************)
(* Items.                                                                  *)
(***************************************************************************)
\* Consumable.maxStack
ConsumableMaxStack == 99

\* The concrete item classes: Weapon and Consumable.
ItemTypes == {"weapon", "consumable"}

\* No entry under that key of the Map (Map.get gives undefined).
NoItem == [id |-> 0, type |-> "none", quantity |-> 0, value |-> 0]

\* new Weapon(id, name, quantity, value, attackBonus)
Weapon(id, quantity, value) ==
    [id |-> id, type |-> "weapon", quantity |-> quantity, value |-> value]

\* new Consumable(id, name, quantity, value, effect)
Consumable(id, quantity, value) ==
    [id |-> id, type |-> "consumable", quantity |-> quantity, value |-> value]

\* The items a caller constructs and hands to addItem.
NewItems ==
    {Weapon(id, q, 100) : id \in Ids, q \in WeaponQuantities}
        \cup {Consumable(id, q, 50) : id \in ConsumableIds, q \in ConsumableQuantities}

\* Inventory.isStackable: 'stackable' in item && item.stackable === true.
\* Only Consumable declares stackable (= true).
isStackable(item) == item.type = "consumable"

\* Inventory.isUsable: 'usable' in item && item.usable === true.
isUsable(item) == item.type = "consumable"

\* The maxStack field of a stackable item.
maxStack(item) == ConsumableMaxStack

\* this.items.size
size(inv) == Cardinality({id \in Ids : inv[id] # NoItem})

\* Inventory.getAllItems(), as a set of entries.
getAllItems(inv) == {inv[id] : id \in {i \in Ids : inv[i] # NoItem}}

(***************************************************************************)
(* Variants of addItem with a plausible slip: a merge that fills the stack *)
(* up to maxStack instead of refusing, and a capacity test that is off by  *)
(* one.                                                                    *)
(***************************************************************************)
addItemPartialMerge(inv, item) ==
    LET existingItem == inv[item.id] IN
    IF existingItem # NoItem /\ isStackable(existingItem)
    THEN IF existingItem.quantity + item.quantity <= maxStack(existingItem)
         THEN [items |-> [inv EXCEPT ![item.id].quantity = @ + item.quantity],
               ret |-> "true"]
         ELSE [items |-> [inv EXCEPT ![item.id].quantity = maxStack(existingItem)],
               ret |-> "true"]
    ELSE IF size(inv) >= MaxSlots
         THEN [items |-> inv, ret |-> "false"]
         ELSE [items |-> [inv EXCEPT ![item.id] = item], ret |-> "true"]

addItemOffByOne(inv, item) ==
    LET existingItem == inv[item.id] IN
    IF existingItem # NoItem /\ isStackable(existingItem)
    THEN IF existingItem.quantity + item.quantity <= maxStack(existingItem)
         THEN [items |-> [inv EXCEPT ![item.id].quantity = @ + item.quantity],
               ret |-> "true"]
         ELSE [items |-> inv, ret |-> "false"]
    ELSE IF size(inv) > MaxSlots
         THEN [items |-> inv, ret |-> "false"]
         ELSE [items |-> [inv EXCEPT ![item.id] = item], ret |-> "true"]

\* A variant of addItem with a plausible slip: the isStackable test left
\* out, so that the quantity is merged into any entry of the same id.
addItemMergeAny(inv, item) ==
    LET existingItem == inv[item.id] IN
    IF existingItem # NoItem
    THEN IF existingItem.quantity + item.quantity <= maxStack(existingItem)
         THEN [items |-> [inv EXCEPT ![item.id].quantity = @ + item.quantity],
               ret |-> "true"]
         ELSE [items |-> inv, ret |-> "false"]
    ELSE IF size(inv) >= MaxSlots
         THEN [items |-> inv, ret |-> "false"]
         ELSE [items |-> [inv EXCEPT ![item.id] = item], ret |-> "true"]

(***************************************************************************)
(* Inventory.addItem: the new map and the value returned.                  *)
(***************************************************************************)
addItemResult(inv, item) ==
    LET existingItem == inv[item.id] IN
    IF existingItem # NoItem /\ isStackable(existingItem)
    THEN IF existingItem.quantity + item.quantity <= maxStack(existingItem)
         THEN [items |-> [inv EXCEPT ![item.id].quantity = @ + item.quantity],
               ret |-> "true"]
         ELSE [items |-> inv, ret |-> "false"]
    ELSE IF size(inv) >= MaxSlots
         THEN [items |-> inv, ret |-> "false"]
         ELSE [items |-> [inv EXCEPT ![item.id] = item], ret |-> "true"]

(***************************************************************************)
(* A variant of removeItem with a plausible slip: < for <=, so that        *)
(* removing exactly the stored quantity leaves an entry of quantity 0.     *)
(***************************************************************************)
removeItemStrict(inv, itemId, quantity) ==
    LET item == inv[itemId] IN
    IF item = NoItem
    THEN [items |-> inv, ret |-> "null", out |-> NoItem]
    ELSE IF item.quantity < quantity
         THEN [items |-> [inv EXCEPT ![itemId] = NoItem], ret |-> "item", out |-> item]
         ELSE [items |-> [inv EXCEPT ![itemId].quantity = @ - quantity],
               ret |-> "item",
               out |-> [item EXCEPT !.quantity = quantity]]

(***************************************************************************)
(* Inventory.removeItem: the new map, "item" or "null", and the item       *)
(* returned (the stored object itself, or a copy with the asked quantity). *)
(***************************************************************************)
removeItemResult(inv, itemId, quantity) ==
    LET item == inv[itemId] IN
    IF item = NoItem
    THEN [items |-> inv, ret |-> "null", out |-> NoItem]
    ELSE IF item.quantity <= quantity
         THEN [items |-> [inv EXCEPT ![itemId] = NoItem], ret |-> "item", out |-> item]
         ELSE [items |-> [inv EXCEPT ![itemId].quantity = @ - quantity],
               ret |-> "item",
               out |-> [item EXCEPT !.quantity = quantity]]

(***************************************************************************)
(* Consumable.use: the effect runs and the quantity drops only when the    *)
(* quantity is positive.  effects counts the runs of the effect.           *)
(***************************************************************************)
use(item) ==
    IF item.quantity > 0
    THEN [item |-> [item EXCEPT !.quantity = @ - 1], effects |-> 1]
    ELSE [item |-> item, effects |-> 0]

(***************************************************************************)
(* Variants of useItem with a plausible slip: the deletion check made      *)
(* before use() is called, and the isUsable guard left out.                *)
(***************************************************************************)
useItemCheckFirst(inv, itemId) ==
    LET item == inv[itemId] IN
    IF item = NoItem \/ ~isUsable(item)
    THEN [items |-> inv, ret |-> "false", effects |-> 0]
    ELSE LET used == use(item) IN
         [items |-> [inv EXCEPT ![itemId] =
                        IF item.quantity <= 0 THEN NoItem ELSE used.item],
          ret |-> "true",
          effects |-> used.effects]

useItemUnguarded(inv, itemId) ==
    LET item == inv[itemId] IN
    IF item = NoItem
    THEN [items |-> inv, ret |-> "false", effects |-> 0]
    ELSE LET used == use(item) IN
         [items |-> [inv EXCEPT ![itemId] =
                        IF used.item.quantity <= 0 THEN NoItem ELSE used.item],
          ret |-> "true",
          effects |-> used.effects]

(***************************************************************************)
(* Inventory.useItem: use() is called on the stored item, then the entry   *)
(* is deleted when its quantity is <= 0.                                   *)
(***************************************************************************)
useItemResult(inv, itemId) ==
    LET item == inv[itemId] IN
    IF item = NoItem \/ ~isUsable(item)
    THEN [items |-> inv, ret |-> "false", effects |-> 0]
    ELSE LET used == use(item) IN
         [items |-> [inv EXCEPT ![itemId] =
                        IF used.item.quantity <= 0 THEN NoItem ELSE used.item],
          ret |-> "true",
          effects |-> used.effects]

(***************************************************************************)
(* The queries of the inventory.                                           *)
(***************************************************************************)
\* Inventory.getItem: the stored item, or undefined (NoItem).
getItem(inv, itemId) == inv[itemId]

\* Inventory.getItemsByType
getItemsByType(inv, type) == {item \in getAllItems(inv) : item.type = type}

\* reduce((total, item) => total + item.value * item.quantity, 0)
RECURSIVE reduceValue(_)
reduceValue(entries) ==
    IF entries = {}
    THEN 0
    ELSE LET item == CHOOSE e \in entries : TRUE IN
         (item.value * item.quantity) + reduceValue(entries \ {item})

\* reduce((total, item) => total + item.quantity, 0)
RECURSIVE reduceQuantity(_)
reduceQuantity(entries) ==
    IF entries = {}
    THEN 0
    ELSE LET item == CHOOSE e \in entries : TRUE IN
         item.quantity + reduceQuantity(entries \ {item})

\* Inventory.getTotalValue
getTotalValue(inv) == reduceValue(getAllItems(inv))

\* A variant of getItemCount with a plausible slip: the entries are counted
\* instead of their quantities.
getItemCountEntries(inv) == Cardinality(getAllItems(inv))

\* Inventory.getItemCount
getItemCount(inv) == reduceQuantity(getAllItems(inv))

\* Inventory.isEmpty and Inventory.isFull
isEmpty(inv) == size(inv) = 0
isFull(inv) == size(inv) >= MaxSlots

(***************************************************************************)
(* The calls of the inventory.  call records the last call: its arguments, *)
(* the entry under the addressed key and the number of entries before the  *)
(* call, the value returned and the runs of the use effect; answer is the  *)
(* number a query returned.                                                *)
(***************************************************************************)
NoCall ==
    [op |-> "none", id |-> 0, arg |-> NoItem, quantity |-> 0, pre |-> NoItem,
     preSize |-> 0, ret |-> "none", out |-> NoItem, effects |-> 0, answer |-> 0]

\* The objects a caller can hand to addItem: newly constructed items, the
\* objects stored in the inventory, and the object the last call returned.
Handed == NewItems \cup getAllItems(items) \cup ({call.out} \ {NoItem})

AddItem(item) ==
    LET r == addItemResult(items, item) IN
    /\ items' = r.items
    /\ UNCHANGED <<charVars, combatVars, ownVars, gameVars, retryVars>>
    /\ call' = [NoCall EXCEPT !.op = "addItem", !.id = item.id, !.arg = item,
                              !.quantity = item.quantity, !.pre = items[item.id],
                              !.preSize = size(items), !.ret = r.ret]

\* @validate of addItem: the argument is not an object (null, undefined).
AddItemInvalid ==
    /\ items' = items
    /\ UNCHANGED <<charVars, combatVars, ownVars, gameVars, retryVars>>
    /\ call' = [NoCall EXCEPT !.op = "addItem", !.preSize = size(items),
                              !.ret = "error"]

RemoveItem(itemId, quantity) ==
    LET r == removeItemResult(items, itemId, quantity) IN
    /\ items' = r.items
    /\ UNCHANGED <<charVars, combatVars, ownVars, gameVars, retryVars>>
    /\ call' = [NoCall EXCEPT !.op = "removeItem", !.id = itemId,
                              !.quantity = quantity, !.pre = items[itemId],
                              !.preSize = size(items), !.ret = r.ret, !.out = r.out]

UseItem(itemId) ==
    LET r == useItemResult(items, itemId) IN
    /\ items' = r.items
    /\ UNCHANGED <<charVars, combatVars, ownVars, gameVars, retryVars>>
    /\ call' = [NoCall EXCEPT !.op = "useItem", !.id = itemId,
                              !.pre = items[itemId], !.preSize = size(items),
                              !.ret = r.ret, !.effects = r.effects]

\* The queries: none of them assigns to the map or to an item.
Bool(b) == IF b THEN "true" ELSE "false"

Asked(op) == [NoCall EXCEPT !.op = op, !.preSize = size(items)]

GetItem(itemId) ==
    /\ items' = items
    /\ UNCHANGED <<charVars, combatVars, ownVars, gameVars, retryVars>>
    /\ call' = [Asked("getItem") EXCEPT !.id = itemId, !.pre = items[itemId],
                                        !.out = getItem(items, itemId)]

GetAllItems ==
    /\ items' = items
    /\ UNCHANGED <<charVars, combatVars, ownVars, gameVars, retryVars>>
    /\ call' = [Asked("getAllItems") EXCEPT
                    !.answer = Cardinality(getAllItems(items))]

GetItemsByType(type) ==
    /\ items' = items
    /\ UNCHANGED <<charVars, combatVars, ownVars, gameVars, retryVars>>
    /\ call' = [Asked("getItemsByType") EXCEPT
                    !.answer = Cardinality(getItemsByType(items, type))]

GetTotalValue ==
    /\ items' = items
    /\ UNCHANGED <<charVars, combatVars, ownVars, gameVars, retryVars>>
    /\ call' = [Asked("getTotalValue") EXCEPT !.answer = getTotalValue(items)]

GetItemCount ==
    /\ items' = items
    /\ UNCHANGED <<charVars, combatVars, ownVars, gameVars, retryVars>>
    /\ call' = [Asked("getItemCount") EXCEPT !.answer = getItemCount(items)]

IsEmpty ==
    /\ items' = items
    /\ UNCHANGED <<charVars, combatVars, ownVars, gameVars, retryVars>>
    /\ call' = [Asked("isEmpty") EXCEPT !.ret = Bool(isEmpty(items))]

IsFull ==
    /\ items' = items
    /\ UNCHANGED <<charVars, combatVars, ownVars, gameVars, retryVars>>
    /\ call' = [Asked("isFull") EXCEPT !.ret = Bool(isFull(items))]

(***************************************************************************)
(* Two inventories and the item objects of a caller.  addItem stores the   *)
(* object it is handed, not a copy: objects holds the item objects the     *)
(* caller has constructed, and stores, for each inventory, the object      *)
(* stored under each key of its Map (NoObject if there is no entry).       *)
(***************************************************************************)
\* The item objects the caller constructs.
MaxObjects == 2
Refs == 1..MaxObjects

\* The two inventories.
Inventories == {"first", "second"}

\* No entry under that key (Map.get gives undefined).
NoObject == 0

\* The items the caller constructs: a stack of potions and a Weapon.
OwnedItems == {Consumable(1, 50, 50), Weapon(2, 2, 100)}

\* Quantities asked of removeItem on the two inventories.
OwnedRemoveQuantities == {1, 50}

\* this.items.size of one inventory.
sizeOf(store) == Cardinality({id \in Ids : store[id] # NoObject})

\* What a call on one inventory leaves: the objects, that inventory's Map,
\* and the value returned.
Left(objs, store, ret) == [objects |-> objs, store |-> store, ret |-> ret]

\* Inventory.addItem on the object ref: a merge writes to the object found
\* under the key; otherwise the object itself is stored.
addItem(objs, store, ref) ==
    LET item == objs[ref]
        existingItem == store[item.id]
    IN IF existingItem # NoObject /\ isStackable(objs[existingItem])
       THEN IF objs[existingItem].quantity + item.quantity
                    <= maxStack(objs[existingItem])
            THEN Left([objs EXCEPT ![existingItem].quantity = @ + item.quantity],
                      store, "true")
            ELSE Left(objs, store, "false")
       ELSE IF sizeOf(store) >= MaxSlots
            THEN Left(objs, store, "false")
            ELSE Left(objs, [store EXCEPT ![item.id] = ref], "true")

\* Inventory.removeItem: the entry is deleted, or the stored object's
\* quantity is lowered and a copy is returned.
removeItem(objs, store, itemId, quantity) ==
    LET item == store[itemId] IN
    IF item = NoObject
    THEN Left(objs, store, "null")
    ELSE IF objs[item].quantity <= quantity
         THEN Left(objs, [store EXCEPT ![itemId] = NoObject], "item")
         ELSE Left([objs EXCEPT ![item].quantity = @ - quantity], store, "item")

\* Inventory.useItem: use() writes to the stored object.
useItem(objs, store, itemId) ==
    LET item == store[itemId] IN
    IF item = NoObject \/ ~isUsable(objs[item])
    THEN Left(objs, store, "false")
    ELSE LET used == use(objs[item]).item IN
         Left([objs EXCEPT ![item] = used],
              IF used.quantity <= 0
              THEN [store EXCEPT ![itemId] = NoObject]
              ELSE store,
              "true")

\* The calls on the two inventories.
AddItemTo(inv, ref) ==
    LET r == addItem(objects, stores[inv], ref) IN
    /\ objects' = r.objects
    /\ stores' = [stores EXCEPT ![inv] = r.store]
    /\ UNCHANGED <<invVars, charVars, combatVars, gameVars, retryVars>>

RemoveItemFrom(inv, itemId, quantity) ==
    LET r == removeItem(objects, stores[inv], itemId, quantity) IN
    /\ objects' = r.objects
    /\ stores' = [stores EXCEPT ![inv] = r.store]
    /\ UNCHANGED <<invVars, charVars, combatVars, gameVars, retryVars>>

UseItemOf(inv, itemId) ==
    LET r == useItem(objects, stores[inv], itemId) IN
    /\ objects' = r.objects
    /\ stores' = [stores EXCEPT ![inv] = r.store]
    /\ UNCHANGED <<invVars, charVars, combatVars, gameVars, retryVars>>

\* The caller has constructed its items; the inventories are new.
InitOwnershipVars ==
    /\ objects \in [Refs -> OwnedItems]
    /\ stores = [inv \in Inventories |-> [id \in Ids |-> NoObject]]

\* No caller: the objects are never handed to an inventory.
NoOwnership ==
    /\ objects = [ref \in Refs |-> Weapon(2, 2, 100)]
    /\ stores = [inv \in Inventories |-> [id \in Ids |-> NoObject]]

(***************************************************************************)
(* Characters.                                                             *)
(***************************************************************************)
\* The two characters of the model: the player, on which every method is
\* called, and an opponent, which attacks, is attacked, takes damage and is
\* healed (the game's enemies never gain experience or use an ability
\* after they are created).
Player == 1
Opponent == 2
CharIds == {Player, Opponent}

\* The classes of PlayerCharacters.ts.
CharacterClasses == {"warrior", "mage", "rogue"}

\* Base stats handed to the BaseCharacter constructor.
BaseHealth == 3
BaseMana == 40
AttackValues == {0, 4}
DefenseValues == {1, 9}
PlayerDefense == 1
OpponentAttack == 4

\* Arguments of takeDamage, heal and gainExperience.
DamageAmounts == {0 - 5, 0, 1, 5}
HealAmounts == {0 - 1, 0, 1, 50}
ExperienceAmounts == {0, 60, 100, 250}

\* Math.random() in hundredths: each threshold of the code has a draw just
\* below it and one at it.
Draws == {9, 10, 50}

\* gainExperience is explored while the level is below MaxLevel.
MaxLevel == 2

\* heal is explored while the health it leaves is not below -MaxDeficit.
MaxDeficit == 1

\* criticalChance = 0.1 of BaseCharacter.attack, in hundredths.
CriticalChance == 10

\* criticalChance = 0.5 of Rogue.stealthAttack, in hundredths.
StealthCriticalChance == 50

\* Mana costs of the abilities.
RageCost == 15
FireballCost == 25
StealthCost == 20
HealSpellCost == 20

\* Mage.useSpecialAbility: magicDamage = attack + 20.
FireballBonus == 20

\* levelUp: statIncrease = 5.
StatIncrease == 5

\* No target argument (useSpecialAbility(target?)).
NoTarget == 0

\* new <Class>(name) with the given base stats: BaseCharacter's constructor
\* copies the stats; level 1, experience 0; Rogue._stealthActive = false.
NewCharacter(cls, attack, defense) ==
    [cls |-> cls, health |-> BaseHealth, maxHealth |-> BaseHealth,
     mana |-> BaseMana, maxMana |-> BaseMana,
     attack |-> attack, defense |-> defense, speed |-> 10,
     level |-> 1, experience |-> 0, stealthActive |-> FALSE]

\* get isAlive
isAlive(c) == c.health > 0

Max(a, b) == IF a >= b THEN a ELSE b
Min(a, b) == IF a <= b THEN a ELSE b

\* What a call gives back: a value, or the error it throws.
Returned(cs, v) == [chars |-> cs, ret |-> v, err |-> "none"]
Thrown(cs, e) == [chars |-> cs, ret |-> 0 - 1, err |-> e]

(***************************************************************************)
(* Variants of takeDamage with a plausible slip: the value returned        *)
(* clamped to the health that was left, and a validation that lets a       *)
(* damage of 0 through.                                                    *)
(***************************************************************************)
takeDamageClamped(cs, t, damage) ==
    IF ~(damage > 0)
    THEN Thrown(cs, "validation")
    ELSE LET actualDamage == Max(1, damage - cs[t].defense) IN
         Returned([cs EXCEPT ![t].health = Max(0, @ - actualDamage)],
                  Min(actualDamage, cs[t].health))

takeDamageZeroAllowed(cs, t, damage) ==
    IF ~(damage >= 0)
    THEN Thrown(cs, "validation")
    ELSE LET actualDamage == Max(1, damage - cs[t].defense) IN
         Returned([cs EXCEPT ![t].health = Max(0, @ - actualDamage)], actualDamage)

(***************************************************************************)
(* BaseCharacter.takeDamage on character t, behind @validate.              *)
(***************************************************************************)
takeDamage(cs, t, damage) ==
    IF ~(damage > 0)
    THEN Thrown(cs, "validation")
    ELSE LET actualDamage == Max(1, damage - cs[t].defense) IN
         Returned([cs EXCEPT ![t].health = Max(0, @ - actualDamage)], actualDamage)

(***************************************************************************)
(* BaseCharacter.heal: the amount is not validated.                        *)
(***************************************************************************)
heal(cs, t, amount) ==
    LET actualHealing == Min(amount, cs[t].maxHealth - cs[t].health) IN
    Returned([cs EXCEPT ![t].health = @ + actualHealing], actualHealing)

(***************************************************************************)
(* A variant of attack with a plausible slip: <= for < in the critical     *)
(* test, so that a draw of exactly 0.10 is a critical hit.                 *)
(***************************************************************************)
baseAttackCriticalAtChance(cs, a, t, draw) ==
    IF ~isAlive(cs[a])
    THEN Thrown(cs, "defeated")
    ELSE LET baseDamage == cs[a].attack
             isCritical == draw <= CriticalChance
             damage == IF isCritical THEN baseDamage * 2 ELSE baseDamage
         IN takeDamage(cs, t, damage)

(***************************************************************************)
(* BaseCharacter.attack of character a on character t.                     *)
(***************************************************************************)
baseAttack(cs, a, t, draw) ==
    IF ~isAlive(cs[a])
    THEN Thrown(cs, "defeated")
    ELSE LET baseDamage == cs[a].attack
             isCritical == draw < CriticalChance
             damage == IF isCritical THEN baseDamage * 2 ELSE baseDamage
         IN takeDamage(cs, t, damage)

(***************************************************************************)
(* Rogue.stealthAttack with _stealthActive set: the flag is cleared, the   *)
(* damage is doubled, and multiplied by 1.5 on a critical hit.             *)
(***************************************************************************)
stealthAttack(cs, a, t, draw) ==
    LET cleared == [cs EXCEPT ![a].stealthActive = FALSE]
        baseDamage == cs[a].attack * 2
        isCritical == draw < StealthCriticalChance
        damage == IF isCritical THEN (baseDamage * 3) \div 2 ELSE baseDamage
    IN takeDamage(cleared, t, damage)

(***************************************************************************)
(* attack as dispatched: Rogue overrides it to use the stealth attack when *)
(* _stealthActive is set.                                                  *)
(***************************************************************************)
attack(cs, a, t, draw) ==
    IF cs[a].cls = "rogue" /\ cs[a].stealthActive
    THEN stealthAttack(cs, a, t, draw)
    ELSE baseAttack(cs, a, t, draw)

(***************************************************************************)
(* BaseCharacter.levelUp and gainExperience.                               *)
(***************************************************************************)
getExperienceNeeded(c) == c.level * 100

levelUp(c) ==
    [c EXCEPT !.level = @ + 1,
              !.experience = 0,
              !.maxHealth = @ + StatIncrease * 2,
              !.health = c.maxHealth + StatIncrease * 2,
              !.maxMana = @ + StatIncrease,
              !.mana = c.maxMana + StatIncrease,
              !.attack = @ + StatIncrease,
              !.defense = @ + (StatIncrease \div 2),
              !.speed = @ + 1]

\* A variant of gainExperience with a plausible slip: the experience above
\* the threshold is carried over to the new level instead of being dropped.
gainExperienceCarryOver(cs, c, exp) ==
    LET gained == [cs[c] EXCEPT !.experience = @ + exp] IN
    IF gained.experience >= getExperienceNeeded(gained)
    THEN Returned([cs EXCEPT ![c] =
                        [levelUp(gained) EXCEPT
                            !.experience = gained.experience
                                            - getExperienceNeeded(gained)]], 1)
    ELSE Returned([cs EXCEPT ![c] = gained], 0)

\* A variant of gainExperience with a plausible slip: > for >=, so that an
\* experience of exactly level * 100 does not level up.
gainExperienceStrict(cs, c, exp) ==
    LET gained == [cs[c] EXCEPT !.experience = @ + exp] IN
    IF gained.experience > getExperienceNeeded(gained)
    THEN Returned([cs EXCEPT ![c] = levelUp(gained)], 1)
    ELSE Returned([cs EXCEPT ![c] = gained], 0)

gainExperience(cs, c, exp) ==
    LET gained == [cs[c] EXCEPT !.experience = @ + exp] IN
    IF gained.experience >= getExperienceNeeded(gained)
    THEN Returned([cs EXCEPT ![c] = levelUp(gained)], 1)
    ELSE Returned([cs EXCEPT ![c] = gained], 0)

(***************************************************************************)
(* useSpecialAbility of each class (the method under @cooldown).           *)
(***************************************************************************)
\* Warrior: Berserker Rage.
warriorAbility(cs, a, t, draw) ==
    IF cs[a].mana < RageCost
    THEN Thrown(cs, "mana")
    ELSE LET paid == [cs EXCEPT ![a].mana = @ - RageCost] IN
         IF t = NoTarget
         THEN Returned(paid, 0)
         ELSE LET originalAttack == paid[a].attack
                  raged == [paid EXCEPT ![a].attack = @ * 2]
                  r == attack(raged, a, t, draw)
              IN IF r.err # "none"
                 THEN r
                 ELSE [r EXCEPT !.chars[a].attack = originalAttack]

\* Mage: Fireball.
mageAbility(cs, a, t) ==
    IF cs[a].mana < FireballCost
    THEN Thrown(cs, "mana")
    ELSE LET paid == [cs EXCEPT ![a].mana = @ - FireballCost] IN
         IF t = NoTarget
         THEN Returned(paid, 0)
         ELSE takeDamage(paid, t, paid[a].attack + FireballBonus)

\* Rogue: Stealth Strike.
rogueAbility(cs, a, t, draw) ==
    IF cs[a].mana < StealthCost
    THEN Thrown(cs, "mana")
    ELSE LET hidden == [cs EXCEPT ![a].mana = @ - StealthCost,
                                  ![a].stealthActive = TRUE] IN
         IF t = NoTarget
         THEN Returned(hidden, 0)
         ELSE stealthAttack(hidden, a, t, draw)

useSpecialAbility(cs, a, t, draw) ==
    CASE cs[a].cls = "warrior" -> warriorAbility(cs, a, t, draw)
      [] cs[a].cls = "mage" -> mageAbility(cs, a, t)
      [] cs[a].cls = "rogue" -> rogueAbility(cs, a, t, draw)

\* @cooldown(seconds) of each class's useSpecialAbility.
cooldownSeconds(cls) ==
    CASE cls = "warrior" -> 3
      [] cls = "mage" -> 2
      [] cls = "rogue" -> 4

\* Mage.healSpell.
healSpell(cs, a, t) ==
    IF cs[a].mana < HealSpellCost
    THEN Thrown(cs, "mana")
    ELSE LET paid == [cs EXCEPT ![a].mana = @ - HealSpellCost]
             healAmount == 30 + paid[a].level * 5
         IN heal(paid, t, healAmount)

(***************************************************************************)
(* The calls on the characters.  act records the last call: the method,    *)
(* the character it is called on, its target, and the value returned or    *)
(* the error thrown.  elapsed is the time in seconds since the player's    *)
(* class last let useSpecialAbility through its cooldown (before the first *)
(* use the recorded time is 0 and the cooldown is long over).              *)
(***************************************************************************)
NoAct == [op |-> "none", actor |-> 0, target |-> 0, ret |-> 0, err |-> "none"]

Acted(op, actor, target, r) ==
    [op |-> op, actor |-> actor, target |-> target, ret |-> r.ret, err |-> r.err]

TakeDamage(t, damage) ==
    LET r == takeDamage(chars, t, damage) IN
    /\ chars' = r.chars
    /\ act' = Acted("takeDamage", t, t, r)
    /\ UNCHANGED <<elapsed, invVars, combatVars, ownVars, gameVars, retryVars>>

Heal(t, amount) ==
    LET r == heal(chars, t, amount) IN
    /\ r.chars[t].health >= 0 - MaxDeficit
    /\ chars' = r.chars
    /\ act' = Acted("heal", t, t, r)
    /\ UNCHANGED <<elapsed, invVars, combatVars, ownVars, gameVars, retryVars>>

Attack(a, t, draw) ==
    LET r == attack(chars, a, t, draw) IN
    /\ chars' = r.chars
    /\ act' = Acted("attack", a, t, r)
    /\ UNCHANGED <<elapsed, invVars, combatVars, ownVars, gameVars, retryVars>>

GainExperience(exp) ==
    LET r == gainExperience(chars, Player, exp) IN
    /\ chars[Player].level < MaxLevel
    /\ chars' = r.chars
    /\ act' = Acted("gainExperience", Player, NoTarget, r)
    /\ UNCHANGED <<elapsed, invVars, combatVars, ownVars, gameVars, retryVars>>

\* A variant of the cooldown with a plausible slip: <= for <, so that a
\* call exactly cooldown seconds after the last one is still refused.
cooledAbilityInclusive(cs, since, a, t, draw) ==
    IF since <= cooldownSeconds(cs[a].cls)
    THEN [call |-> Thrown(cs, "cooldown"), elapsed |-> since]
    ELSE [call |-> useSpecialAbility(cs, a, t, draw), elapsed |-> 0]

\* useSpecialAbility behind @cooldown: within the cooldown the call throws
\* and the method does not run; otherwise the time of the call is recorded
\* and the method runs.
cooledAbility(cs, since, a, t, draw) ==
    IF since < cooldownSeconds(cs[a].cls)
    THEN [call |-> Thrown(cs, "cooldown"), elapsed |-> since]
    ELSE [call |-> useSpecialAbility(cs, a, t, draw), elapsed |-> 0]

UseSpecialAbility(t, draw) ==
    LET r == cooledAbility(chars, elapsed, Player, t, draw) IN
    /\ chars' = r.call.chars
    /\ elapsed' = r.elapsed
    /\ act' = Acted("useSpecialAbility", Player, t, r.call)
    /\ UNCHANGED <<invVars, combatVars, ownVars, gameVars, retryVars>>

HealSpell(t) ==
    LET r == healSpell(chars, Player, t) IN
    /\ chars[Player].cls = "mage"
    /\ chars' = r.chars
    /\ act' = Acted("healSpell", Player, t, r)
    /\ UNCHANGED <<elapsed, invVars, combatVars, ownVars, gameVars, retryVars>>

\* Time passes until the cooldown of the player's class is over.
Wait ==
    /\ elapsed < cooldownSeconds(chars[Player].cls)
    /\ elapsed' = cooldownSeconds(chars[Player].cls)
    /\ UNCHANGED <<chars, act, invVars, combatVars, ownVars, gameVars, retryVars>>

\* gainExperience is called on either character while its level is below
\* TopLevel.
TopLevel == 4

GainExperienceOf(c, exp) ==
    LET r == gainExperience(chars, c, exp) IN
    /\ chars[c].level < TopLevel
    /\ chars' = r.chars
    /\ act' = Acted("gainExperience", c, NoTarget, r)
    /\ UNCHANGED <<elapsed, invVars, combatVars, ownVars, gameVars, retryVars>>

\* useSpecialAbility called on either character: the Map of @cooldown is
\* created once for the decorated method and keyed by the name of the class
\* and of the method, so the characters of one class share elapsed.
UseSpecialAbilityOf(a, t, draw) ==
    LET r == cooledAbility(chars, elapsed, a, t, draw) IN
    /\ chars' = r.call.chars
    /\ elapsed' = r.elapsed
    /\ act' = Acted("useSpecialAbility", a, t, r.call)
    /\ UNCHANGED <<invVars, combatVars, ownVars, gameVars, retryVars>>

\* A second passes within the cooldown.
Tick ==
    /\ elapsed < cooldownSeconds(chars[Player].cls)
    /\ elapsed' = elapsed + 1
    /\ UNCHANGED <<chars, act, invVars, combatVars, ownVars, gameVars, retryVars>>

\* The health of a character that survives an ability.
SturdyHealth == 40

\* Two characters of one class, on which useSpecialAbility has not been
\* called yet.
InitAbilityVars ==
    /\ \E cls \in CharacterClasses, h \in {BaseHealth, SturdyHealth},
          atk \in AttackValues, d \in DefenseValues :
            chars = [c \in CharIds |->
                        [NewCharacter(cls, atk, d) EXCEPT
                            !.health = h, !.maxHealth = h]]
    /\ elapsed = cooldownSeconds(chars[Player].cls)
    /\ act = NoAct

(***************************************************************************)
(* The combat resolver (combat/CombatSystem.ts).  fighters holds the       *)
(* characters handed to the constructor: fighter 1 is the player, fighters *)
(* 2.. are the enemies in the order given.  participants is the list of    *)
(* fighters after the constructor's sort.                                  *)
(***************************************************************************)
\* The loop of startCombat is explored for MaxTurns turns.
MaxTurns == 6

\* The enemies handed to the constructor: one, or MaxEnemies.
MaxEnemies == 2

\* Stats of the enemies and the attack of the player.
EnemyAttack == 2
EnemyDefense == 2
PlayerAttack == 4

\* The names of the characters; two characters may carry the same name.
PlayerNames == {"Hero", "Goblin"}
FirstEnemyName == "Goblin"
SecondEnemyNames == {"Goblin", "Orc"}

\* The speeds and levels of the characters handed to the constructor.
Speeds == {1, 2}
EnemyLevels == {1, 3}
SecondEnemyLevel == 5
SecondEnemySpeed == 2

\* Math.random() of choosePlayerAction and chooseEnemyAction, in hundredths.
ActionDraws == {50, 75, 95}

\* Math.random() of attack and stealthAttack, in hundredths.
CombatDraws == {9, 50}

\* Math.random() of generateLoot, in hundredths: each threshold has a draw
\* below it and one at it.
LootDraws == {5, 10, 20, 30, 50}

\* The mana of the player handed to the constructor.
PlayerManas == {10, BaseMana}

\* choosePlayerAction: rand < 0.7 attacks, rand < 0.9 with mana >= 15 attacks.
PlayerAttackChance == 70
PlayerSpecialChance == 90
PlayerSpecialMana == 15

\* chooseEnemyAction: rand < 0.8 attacks.
EnemyAttackChance == 80

\* calculateExperience: level * 25 for each defeated enemy.
ExperiencePerLevel == 25

\* generateLoot: rand < 0.3 gives a potion, rand < 0.1 a sword as well.
PotionChance == 30
SwordChance == 10

\* A character with its name.
Named(name, c) == [name |-> name] @@ c

\* winner of a CombatResult that names nobody (undefined).
NoWinner == "undefined"

\* The CombatResult before startCombat has returned.
NoResult == [winner |-> NoWinner, experience |-> 0, loot |-> <<>>, actions |-> <<>>]

\* damage of a CombatAction that has none (defend).
NoDamage == 0 - 1

\* CombatParticipant.isPlayer
isPlayer(id) == id = Player

\* Array.prototype.sort with (a, b) => b.speed - a.speed: a stable sort, by
\* insertion of each element behind those that do not sort after it.
RECURSIVE sortBySpeedTiesReversed(_, _)
sortBySpeedTiesReversed(fs, input) ==
    IF input = <<>>
    THEN <<>>
    ELSE LET id == input[Len(input)]
             sorted == sortBySpeedTiesReversed(fs, SubSeq(input, 1, Len(input) - 1))
             k == Cardinality({i \in 1..Len(sorted) :
                                    fs[sorted[i]].speed > fs[id].speed})
         IN SubSeq(sorted, 1, k) \o <<id>> \o SubSeq(sorted, k + 1, Len(sorted))

RECURSIVE sortBySpeed(_, _)
sortBySpeed(fs, input) ==
    IF input = <<>>
    THEN <<>>
    ELSE LET id == input[Len(input)]
             sorted == sortBySpeed(fs, SubSeq(input, 1, Len(input) - 1))
             k == Cardinality({i \in 1..Len(sorted) :
                                    fs[sorted[i]].speed >= fs[id].speed})
         IN SubSeq(sorted, 1, k) \o <<id>> \o SubSeq(sorted, k + 1, Len(sorted))

\* The constructor: the player, then the enemies, sorted by speed.
newParticipants(fs) ==
    sortBySpeed(fs, [i \in 1..Cardinality(DOMAIN fs) |-> i])

\* participants.filter(p => !p.isPlayer && p.character.isAlive)
aliveEnemies(fs, ps) ==
    SelectSeq(ps, LAMBDA id : ~isPlayer(id) /\ isAlive(fs[id]))

\* participants.find(p => p.isPlayer && p.character.isAlive) is found.
alivePlayer(fs, ps) ==
    \E i \in 1..Len(ps) : isPlayer(ps[i]) /\ isAlive(fs[ps[i]])

\* Variants of isCombatOver with a plausible slip: over as soon as one enemy
\* is defeated, and over only when both sides are defeated.
isCombatOverAnyDefeated(fs, ps) ==
    (\E i \in 1..Len(ps) : ~isPlayer(ps[i]) /\ ~isAlive(fs[ps[i]]))
        \/ ~alivePlayer(fs, ps)

isCombatOverBothSides(fs, ps) ==
    Len(aliveEnemies(fs, ps)) = 0 /\ ~alivePlayer(fs, ps)

\* CombatSystem.isCombatOver
isCombatOver(fs, ps) ==
    Len(aliveEnemies(fs, ps)) = 0 \/ ~alivePlayer(fs, ps)

\* A variant of the loop condition with a plausible slip: a cap on the turns.
loopContinuesCapped(fs, ps, turn) == ~isCombatOver(fs, ps) /\ turn < 3

\* while (!this.isCombatOver()) of startCombat: there is no other condition.
loopContinues(fs, ps, turn) == ~isCombatOver(fs, ps)

\* CombatSystem.getCurrentParticipant
getCurrentParticipant(ps, turn) == ps[(turn % Len(ps)) + 1]

\* CombatSystem.findCharacterByName: the first participant of that name.
findCharacterByName(fs, ps, name) ==
    LET found == {i \in 1..Len(ps) : fs[ps[i]].name = name} IN
    IF found = {}
    THEN NoTarget
    ELSE ps[CHOOSE i \in found : \A j \in found : i <= j]

\* CombatAction
CombatAction(type, actor, target) ==
    [type |-> type, actor |-> actor, target |-> target, damage |-> NoDamage]

\* A variant of choosePlayerAction with a plausible slip: the special attack
\* is chosen whatever the mana.
choosePlayerActionAnyMana(fs, player, target, rand) ==
    IF rand < PlayerAttackChance
    THEN CombatAction("attack", fs[player].name, fs[target].name)
    ELSE IF rand < PlayerSpecialChance
         THEN CombatAction("attack", fs[player].name, fs[target].name)
         ELSE CombatAction("defend", fs[player].name, "none")

\* CombatSystem.choosePlayerAction
choosePlayerAction(fs, player, target, rand) ==
    IF rand < PlayerAttackChance
    THEN CombatAction("attack", fs[player].name, fs[target].name)
    ELSE IF rand < PlayerSpecialChance /\ fs[player].mana >= PlayerSpecialMana
         THEN CombatAction("attack", fs[player].name, fs[target].name)
         ELSE CombatAction("defend", fs[player].name, "none")

\* CombatSystem.chooseEnemyAction
chooseEnemyAction(fs, enemy, target, rand) ==
    IF rand < EnemyAttackChance
    THEN CombatAction("attack", fs[enemy].name, fs[target].name)
    ELSE CombatAction("defend", fs[enemy].name, "none")

\* What a step of the resolver leaves: the characters, the log, the error
\* thrown, and the character on which attack was invoked (NoTarget if none).
Outcome(fs, log, err, attacker) ==
    [fighters |-> fs, log |-> log, err |-> err, attacker |-> attacker]

\* CombatSystem.executeAction
executeAction(fs, ps, log, action, draw) ==
    LET actor == findCharacterByName(fs, ps, action.actor)
        target == IF action.target # "none"
                  THEN findCharacterByName(fs, ps, action.target)
                  ELSE NoTarget
    IN IF actor = NoTarget
       THEN Outcome(fs, log, "none", NoTarget)
       ELSE IF action.type = "attack" /\ target # NoTarget
            THEN LET r == attack(fs, actor, target, draw) IN
                 IF r.err # "none"
                 THEN Outcome(r.chars, log, r.err, actor)
                 ELSE Outcome(r.chars,
                              Append(log, [action EXCEPT !.damage = r.ret]),
                              "none", actor)
            ELSE Outcome(fs, Append(log, action), "none", NoTarget)

\* CombatSystem.playerTurn
playerTurn(fs, ps, log, player, rand, draw) ==
    LET enemies == aliveEnemies(fs, ps) IN
    IF Len(enemies) = 0
    THEN Outcome(fs, log, "none", NoTarget)
    ELSE executeAction(fs, ps, log,
                       choosePlayerAction(fs, player, enemies[1], rand), draw)

\* CombatSystem.enemyTurn
enemyTurn(fs, ps, log, enemy, rand, draw) ==
    IF ~(\E i \in 1..Len(ps) : isPlayer(ps[i])) \/ ~isAlive(fs[Player])
    THEN Outcome(fs, log, "none", NoTarget)
    ELSE executeAction(fs, ps, log,
                       chooseEnemyAction(fs, enemy, Player, rand), draw)

\* The body of the loop of startCombat, up to nextTurn.
takeTurn(fs, ps, log, turn, rand, draw) ==
    LET current == getCurrentParticipant(ps, turn) IN
    IF isAlive(fs[current])
    THEN IF isPlayer(current)
         THEN playerTurn(fs, ps, log, current, rand, draw)
         ELSE enemyTurn(fs, ps, log, current, rand, draw)
    ELSE Outcome(fs, log, "none", NoTarget)

\* CombatSystem.calculateExperience
RECURSIVE sumLevels(_, _)
sumLevels(fs, ids) ==
    IF ids = {}
    THEN 0
    ELSE LET id == CHOOSE x \in ids : TRUE IN
         fs[id].level * ExperiencePerLevel + sumLevels(fs, ids \ {id})

\* A variant of calculateExperience with a plausible slip: the living
\* enemies are counted instead of the defeated ones.
calculateExperienceAlive(fs, ps) ==
    sumLevels(fs, {ps[i] : i \in {j \in 1..Len(ps) :
                                    ~isPlayer(ps[j]) /\ isAlive(fs[ps[j]])}})

calculateExperience(fs, ps) ==
    sumLevels(fs, {ps[i] : i \in {j \in 1..Len(ps) :
                                    ~isPlayer(ps[j]) /\ ~isAlive(fs[ps[j]])}})

\* A variant of generateLoot with a plausible slip: <= for < in the test of
\* the potion, so that a draw of exactly 0.3 gives a potion.
generateLootAtChance(rand) ==
    (IF rand <= PotionChance THEN <<"potion">> ELSE <<>>)
        \o (IF rand < SwordChance THEN <<"sword">> ELSE <<>>)

\* CombatSystem.generateLoot: the ids of the items.
generateLoot(rand) ==
    (IF rand < PotionChance THEN <<"potion">> ELSE <<>>)
        \o (IF rand < SwordChance THEN <<"sword">> ELSE <<>>)

\* A variant of getCombatResult with a plausible slip: on a defeat the
\* winner is the first enemy of the list, alive or not.
getCombatResultFirstEnemy(fs, ps, log, rand) ==
    LET enemies == aliveEnemies(fs, ps)
        allEnemies == SelectSeq(ps, LAMBDA id : ~isPlayer(id))
        playerAlive == alivePlayer(fs, ps)
    IN [actions |-> log,
        winner |-> IF playerAlive /\ Len(enemies) = 0
                   THEN fs[Player].name
                   ELSE IF ~playerAlive /\ Len(allEnemies) > 0
                        THEN fs[allEnemies[1]].name
                        ELSE NoWinner,
        experience |-> IF playerAlive /\ Len(enemies) = 0
                       THEN calculateExperience(fs, ps)
                       ELSE 0,
        loot |-> generateLoot(rand)]

\* CombatSystem.getCombatResult
getCombatResult(fs, ps, log, rand) ==
    LET enemies == aliveEnemies(fs, ps)
        playerAlive == alivePlayer(fs, ps)
    IN [actions |-> log,
        winner |-> IF playerAlive /\ Len(enemies) = 0
                   THEN fs[Player].name
                   ELSE IF ~playerAlive /\ Len(enemies) > 0
                        THEN fs[enemies[1]].name
                        ELSE NoWinner,
        experience |-> IF playerAlive /\ Len(enemies) = 0
                       THEN calculateExperience(fs, ps)
                       ELSE 0,
        loot |-> generateLoot(rand)]

\* One pass of the loop of startCombat: the turn of the current participant,
\* then nextTurn; an error thrown by attack leaves startCombat.
Turn(rand, draw) ==
    LET r == takeTurn(fighters, participants, combatLog, currentTurn, rand, draw) IN
    /\ phase = "Running"
    /\ loopContinues(fighters, participants, currentTurn)
    /\ currentTurn < MaxTurns
    /\ fighters' = r.fighters
    /\ combatLog' = r.log
    /\ thrown' = r.err
    /\ phase' = IF r.err = "none" THEN "Running" ELSE "Failed"
    /\ currentTurn' = IF r.err = "none" THEN currentTurn + 1 ELSE currentTurn
    /\ UNCHANGED <<participants, result, invVars, charVars, ownVars, gameVars, retryVars>>

\* The loop is left: startCombat returns getCombatResult().
Return(rand) ==
    /\ phase = "Running"
    /\ ~loopContinues(fighters, participants, currentTurn)
    /\ result' = getCombatResult(fighters, participants, combatLog, rand)
    /\ phase' = "Terminated"
    /\ UNCHANGED <<fighters, participants, currentTurn, combatLog, thrown,
                   invVars, charVars, ownVars, gameVars, retryVars>>

\* The player handed to the constructor: a Warrior, or a Rogue that has
\* entered stealth.
NewPlayer(name, cls, speed) ==
    Named(name, [NewCharacter(cls, PlayerAttack, PlayerDefense)
                    EXCEPT !.speed = speed, !.stealthActive = (cls = "rogue")])

\* An enemy handed to the constructor: a Warrior of some level, as new or
\* as left by an earlier combat (health 0).
NewEnemy(name, level, speed, health) ==
    Named(name, [NewCharacter("warrior", EnemyAttack, EnemyDefense)
                    EXCEPT !.speed = speed, !.level = level, !.health = health])

\* new CombatSystem(player, enemies), before startCombat.
NewCombat(fs) ==
    /\ fighters = fs
    /\ participants = newParticipants(fs)
    /\ currentTurn = 0
    /\ combatLog = <<>>
    /\ phase = "Running"
    /\ thrown = "none"
    /\ result = NoResult

\* The first enemy is a Warrior, or a Rogue that had entered stealth before
\* it was defeated; the player has its full mana, or too little for the
\* special attack (a Warrior named Hero that has spent it).
InitCombatVars ==
    \E pn \in PlayerNames, cls \in {"warrior", "rogue"}, ps \in Speeds,
       pm \in PlayerManas, c1 \in {"warrior", "rogue"},
       l1 \in EnemyLevels, s1 \in Speeds, h1 \in {0, BaseHealth},
       n2 \in SecondEnemyNames, n \in {1, MaxEnemies} :
        /\ c1 = "rogue" => h1 = 0
        /\ pm # BaseMana => (cls = "warrior" /\ pn = "Hero")
        /\ NewCombat([i \in 1..(1 + n) |->
                        IF i = Player
                        THEN [NewPlayer(pn, cls, ps) EXCEPT !.mana = pm]
                        ELSE IF i = 2
                             THEN [NewEnemy(FirstEnemyName, l1, s1, h1) EXCEPT
                                        !.cls = c1,
                                        !.stealthActive = (c1 = "rogue")]
                             ELSE NewEnemy(n2, SecondEnemyLevel, SecondEnemySpeed,
                                           BaseHealth)])

\* No combat: the resolver as constructed for a player and one enemy.
NoCombat ==
    NewCombat([i \in 1..2 |->
                IF i = Player
                THEN NewPlayer("Hero", "warrior", 1)
                ELSE NewEnemy(FirstEnemyName, 1, 1, BaseHealth)])

(***************************************************************************)
(* The game session (game/Game.ts): its player is chars[Player], its       *)
(* inventory is items, and saveFile is the file saveGame writes.           *)
(***************************************************************************)
\* The items the game adds to its inventory (starting items, loot, finds).
GameItems == {Consumable(1, 50, 50), Weapon(2, 1, 100)}

\* Game.createCharacter: a new character of the class, with its base stats.
createCharacter(cls) == NewCharacter(cls, PlayerAttack, PlayerDefense)

\* Game.createItemFromData: a new Consumable or Weapon from the data; null
\* (NoItem) for any other type.
createItemFromData(data) ==
    CASE data.type = "consumable" -> Consumable(data.id, data.quantity, data.value)
      [] data.type = "weapon" -> Weapon(data.id, data.quantity, data.value)
      [] OTHER -> NoItem

\* No save file has been written.
NoSave ==
    [written |-> FALSE,
     player |-> [cls |-> "none", level |-> 0, experience |-> 0,
                 stats |-> [health |-> 0, maxHealth |-> 0, mana |-> 0,
                            maxMana |-> 0, attack |-> 0, defense |-> 0,
                            speed |-> 0]],
     inventory |-> [items |-> {}, maxSlots |-> 0]]

\* The gameState object of Game.saveGame, as written to the file: the
\* player's class, level, experience and a copy of the stats, and of each
\* item the id, type, quantity and value.
saveGame(cs, inv) ==
    [written |-> TRUE,
     player |-> [cls |-> cs[Player].cls,
                 level |-> cs[Player].level,
                 experience |-> cs[Player].experience,
                 stats |-> [health |-> cs[Player].health,
                            maxHealth |-> cs[Player].maxHealth,
                            mana |-> cs[Player].mana,
                            maxMana |-> cs[Player].maxMana,
                            attack |-> cs[Player].attack,
                            defense |-> cs[Player].defense,
                            speed |-> cs[Player].speed]],
     inventory |-> [items |-> {[id |-> item.id, type |-> item.type,
                                quantity |-> item.quantity, value |-> item.value] :
                                    item \in getAllItems(inv)},
                    maxSlots |-> MaxSlots]]

\* gameState.inventory.items.forEach of Game.loadGame: each item is created
\* from its data and added to the new inventory.
RECURSIVE restoreItems(_, _)
restoreItems(inv, datas) ==
    IF datas = {}
    THEN inv
    ELSE LET data == CHOOSE d \in datas : \A e \in datas : d.id <= e.id
             item == createItemFromData(data)
             rest == datas \ {data}
         IN IF item = NoItem
            THEN restoreItems(inv, rest)
            ELSE restoreItems(addItemResult(inv, item).items, rest)

\* Game.loadGame, up to its call of gameLoop: readFile throws when there is
\* no file and the error is caught; otherwise the player is created anew
\* from the name and the class, and the inventory from the items.
loadGame(file, cs, inv) ==
    IF ~file.written
    THEN [chars |-> cs, items |-> inv, err |-> "read"]
    ELSE [chars |-> [cs EXCEPT ![Player] = createCharacter(file.player.cls)],
          items |-> restoreItems([id \in Ids |-> NoItem], file.inventory.items),
          err |-> "none"]

\* The game loop before it is entered.
NoSession == [pc |-> "none", gameRunning |-> TRUE, turnCount |-> 0, cached |-> FALSE]

SaveGame ==
    /\ saveFile' = saveGame(chars, items)
    /\ UNCHANGED <<session, invVars, charVars, combatVars, ownVars, retryVars>>

LoadGame ==
    LET r == loadGame(saveFile, chars, items) IN
    /\ chars' = r.chars
    /\ items' = r.items
    /\ act' = [NoAct EXCEPT !.op = "loadGame", !.err = r.err]
    /\ call' = NoCall
    /\ UNCHANGED <<elapsed, gameVars, combatVars, ownVars, retryVars>>

\* startNewGame: the player is created and no file has been written.
InitGameVars ==
    /\ \E cls \in CharacterClasses :
            chars = [c \in CharIds |-> createCharacter(cls)]
    /\ elapsed = cooldownSeconds(chars[Player].cls)
    /\ act = NoAct
    /\ saveFile = NoSave
    /\ session = NoSession

NoGame == saveFile = NoSave /\ session = NoSession

(***************************************************************************)
(* The game loop (Game.gameLoop).  While the loop runs, the player and the *)
(* enemy are the objects the game hands to the resolver: fighters[Player]  *)
(* is this.player, and fighters[2], once created, is the object held by    *)
(* the cache of @memoize on createRandomEnemy.  session holds the position *)
(* of the loop, gameRunning, turnCount and whether the cache has an entry. *)
(***************************************************************************)
\* const maxTurns = 10 of gameLoop.
GameMaxTurns == 10

\* simulateUserChoice: quit from turn 8 on.
QuitTurn == 8

\* if (turnCount % 5 === 0) of gameLoop.
AutoSaveEvery == 5

\* encounterChance = 0.7 of explore and the 0.3 of finding an item, in
\* hundredths.
EncounterChance == 70
FindChance == 30

\* Math.random() of explore, in hundredths: a draw on each side of each
\* threshold.
ExploreDraws == {20, 50, 80}

\* The names createRandomEnemy draws from (two of enemyTypes), and the
\* names of the player.
EnemyTypes == {"Goblin", "Orc"}
GamePlayerNames == {"Hero", "Goblin"}

\* The ids of the items of the game: 'health_potion' (a starting item and
\* a find), and the loot 'potion' and 'sword'.
HealthPotionId == 1
LootPotionId == 2
LootSwordId == 3

\* The loot of CombatSystem.generateLoot, as the data objects it pushes.
lootData(kind) ==
    IF kind = "potion"
    THEN [id |-> LootPotionId, type |-> "consumable", quantity |-> 1, value |-> 50]
    ELSE [id |-> LootSwordId, type |-> "weapon", quantity |-> 1, value |-> 100]

\* The items findRandomItem draws from: a health potion, or a gold coin of
\* type 'misc'.
FoundItems ==
    {[id |-> HealthPotionId, type |-> "consumable", quantity |-> 1, value |-> 50],
     [id |-> 0, type |-> "misc", quantity |-> 5, value |-> 1]}

\* Game.simulateUserChoice
simulateUserChoice(turnCount) ==
    IF turnCount >= QuitTurn
    THEN 5
    ELSE <<1, 1, 2, 3, 1, 4, 1>>[(turnCount % 7) + 1]

\* while (gameRunning && this.player?.isAlive && turnCount < maxTurns)
gameLoopContinues(s, fs) ==
    s.gameRunning /\ isAlive(fs[Player]) /\ s.turnCount < GameMaxTurns

\* The body of createRandomEnemy: a new Warrior, on which gainExperience(100)
\* is called once for each level of the player above 1.
RECURSIVE scaleEnemy(_, _)
scaleEnemy(enemy, levelDiff) ==
    IF levelDiff <= 0
    THEN enemy
    ELSE scaleEnemy(gainExperience([i \in {2} |-> enemy], 2, 100).chars[2],
                    levelDiff - 1)

newRandomEnemy(fs, name) ==
    scaleEnemy(Named(name, createCharacter("warrior")), fs[Player].level - 1)

\* createRandomEnemy behind @memoize: the key is JSON.stringify([]) on every
\* call, so once the cache has an entry the object it holds is returned
\* and the method does not run.
createRandomEnemy(s, fs, name) ==
    IF s.cached
    THEN fs
    ELSE [i \in 1..2 |-> IF i = Player THEN fs[Player] ELSE newRandomEnemy(fs, name)]

\* The end of a pass of gameLoop: turnCount++, and the auto-save every 5
\* turns.
endOfTurn(s, file, fs, inv) ==
    LET counted == [s EXCEPT !.turnCount = @ + 1, !.pc = "loop"] IN
    [session |-> counted,
     saveFile |-> IF counted.turnCount % AutoSaveEvery = 0
                  THEN saveGame(fs, inv)
                  ELSE file]

\* result.loot.forEach of Game.startCombat.
RECURSIVE addLoot(_, _)
addLoot(inv, loot) ==
    IF loot = <<>>
    THEN inv
    ELSE LET item == createItemFromData(lootData(Head(loot))) IN
         addLoot(IF item = NoItem THEN inv ELSE addItemResult(inv, item).items,
                 Tail(loot))

\* A variant of the rewards with a plausible slip: the winner is not
\* compared with the player.
collectRewardsAnyWinner(fs, inv, res) ==
    [fighters |-> gainExperience(fs, Player, res.experience).chars,
     items |-> addLoot(inv, res.loot)]

\* Game.startCombat after combat.startCombat() has returned: experience
\* and loot when the winner carries the player's name and the experience
\* is not 0.
collectRewards(fs, inv, res) ==
    IF res.winner = fs[Player].name /\ res.experience # 0
    THEN [fighters |-> gainExperience(fs, Player, res.experience).chars,
          items |-> addLoot(inv, res.loot)]
    ELSE [fighters |-> fs, items |-> inv]

\* Choice 1, explore(), with an encounter: Game.startCombat creates the
\* enemy and the resolver, and combat.startCombat() is entered.
Encounter(rand, name) ==
    LET fs == createRandomEnemy(session, fighters, name) IN
    /\ session.pc = "loop"
    /\ gameLoopContinues(session, fighters)
    /\ simulateUserChoice(session.turnCount) = 1
    /\ rand < EncounterChance
    /\ fighters' = fs
    /\ participants' = newParticipants(fs)
    /\ currentTurn' = 0
    /\ combatLog' = <<>>
    /\ phase' = "Running"
    /\ thrown' = "none"
    /\ result' = NoResult
    /\ session' = [session EXCEPT !.pc = "combat", !.cached = TRUE]
    /\ UNCHANGED <<saveFile, invVars, charVars, ownVars, retryVars>>

\* combat.startCombat() has returned: the rest of Game.startCombat and of
\* the pass of the loop.
EndCombat ==
    LET r == collectRewards(fighters, items, result)
        e == endOfTurn(session, saveFile, r.fighters, r.items)
    IN /\ session.pc = "combat"
       /\ phase = "Terminated"
       /\ fighters' = r.fighters
       /\ items' = r.items
       /\ session' = e.session
       /\ saveFile' = e.saveFile
       /\ UNCHANGED <<call, participants, currentTurn, combatLog, phase, thrown,
                      result, charVars, ownVars, retryVars>>

\* Choice 1, explore(), without an encounter: an item may be found.
Explore(rand, find, data) ==
    LET item == createItemFromData(data)
        inv == IF find < FindChance /\ item # NoItem
               THEN addItemResult(items, item).items
               ELSE items
        e == endOfTurn(session, saveFile, fighters, inv)
    IN /\ session.pc = "loop"
       /\ gameLoopContinues(session, fighters)
       /\ simulateUserChoice(session.turnCount) = 1
       /\ rand >= EncounterChance
       /\ items' = inv
       /\ session' = e.session
       /\ saveFile' = e.saveFile
       /\ UNCHANGED <<call, combatVars, charVars, ownVars, retryVars>>

\* Choices 2 and 3: the inventory or the character is displayed.
Display ==
    LET e == endOfTurn(session, saveFile, fighters, items) IN
    /\ session.pc = "loop"
    /\ gameLoopContinues(session, fighters)
    /\ simulateUserChoice(session.turnCount) \in {2, 3}
    /\ session' = e.session
    /\ saveFile' = e.saveFile
    /\ UNCHANGED <<invVars, combatVars, charVars, ownVars, retryVars>>

\* Choice 4: saveGame('autosave').
SaveTurn ==
    LET e == endOfTurn(session, saveGame(fighters, items), fighters, items) IN
    /\ session.pc = "loop"
    /\ gameLoopContinues(session, fighters)
    /\ simulateUserChoice(session.turnCount) = 4
    /\ session' = e.session
    /\ saveFile' = e.saveFile
    /\ UNCHANGED <<invVars, combatVars, charVars, ownVars, retryVars>>

\* Choice 5: gameRunning = false.
Quit ==
    LET e == endOfTurn([session EXCEPT !.gameRunning = FALSE], saveFile,
                       fighters, items) IN
    /\ session.pc = "loop"
    /\ gameLoopContinues(session, fighters)
    /\ simulateUserChoice(session.turnCount) = 5
    /\ session' = e.session
    /\ saveFile' = e.saveFile
    /\ UNCHANGED <<invVars, combatVars, charVars, ownVars, retryVars>>

\* The condition of the loop fails: gameLoop returns.
ExitLoop ==
    /\ session.pc = "loop"
    /\ ~gameLoopContinues(session, fighters)
    /\ session' = [session EXCEPT !.pc = "exited"]
    /\ UNCHANGED <<saveFile, invVars, combatVars, charVars, ownVars, retryVars>>

\* gameLoop is entered from loadGame: the player has been created anew from
\* the name and the class of the file, the inventory holds the items of
\* the file (none, or health potions), and no resolver exists yet.
InitLoopVars ==
    /\ \E name \in GamePlayerNames, cls \in CharacterClasses :
            fighters = [i \in {Player} |-> Named(name, createCharacter(cls))]
    /\ participants = <<>>
    /\ currentTurn = 0
    /\ combatLog = <<>>
    /\ phase = "Idle"
    /\ thrown = "none"
    /\ result = NoResult
    /\ items \in {[id \in Ids |-> NoItem],
                  [id \in Ids |-> IF id = HealthPotionId
                                  THEN Consumable(HealthPotionId, 3, 50)
                                  ELSE NoItem]}
    /\ call = NoCall
    /\ saveFile = NoSave
    /\ session = [NoSession EXCEPT !.pc = "loop"]

(***************************************************************************)
(* fetchWithRetry (exercises/06-unit-testing.ts, and the method of the     *)
(* same name of the tutorial's ApiService).  retry holds the position of   *)
(* one call: its arguments, the index i of its loop, the outcomes of the   *)
(* invocations of fetchFn so far, and what the call has returned or        *)
(* thrown.                                                                 *)
(***************************************************************************)
\* maxRetries is drawn from 0..MaxRetries (3 is the default argument).
MaxRetries == 3

\* What an invocation of fetchFn resolves to, and the errors it rejects with.
FetchValues == {"data", "empty"}
FetchErrors == {"network", "timeout", "status"}

\* The two versions of the function.
Versions == {"exercise", "tutorial"}

\* fetchWithRetry(fetchFn, maxRetries) as called.
NewRetry(version, maxRetries) ==
    [version |-> version, maxRetries |-> maxRetries, pc |-> "loop", i |-> 0,
     calls |-> <<>>, value |-> "none", error |-> "none"]

\* return await fetchFn() with fetchFn resolved.
fetchResolved(r, value) ==
    [r EXCEPT !.calls = Append(@, value), !.pc = "returned", !.value = value]

\* A variant of the catch block with a plausible slip: the last pass is
\* taken to be i === maxRetries.
fetchRejectedOneMore(r, error) ==
    IF r.i = r.maxRetries
    THEN [r EXCEPT !.calls = Append(@, error), !.pc = "thrown", !.error = error]
    ELSE [r EXCEPT !.calls = Append(@, error), !.i = @ + 1]

\* The catch block: on the last pass the error is thrown again, otherwise
\* the delay is awaited and the loop goes on.
fetchRejected(r, error) ==
    IF r.i = r.maxRetries - 1
    THEN [r EXCEPT !.calls = Append(@, error), !.pc = "thrown", !.error = error]
    ELSE [r EXCEPT !.calls = Append(@, error), !.i = @ + 1]

\* The loop is left without a return or a throw: the exercise's function
\* throws 'Max retries exceeded', the tutorial's method returns undefined.
loopLeft(r) ==
    IF r.version = "exercise"
    THEN [r EXCEPT !.pc = "thrown", !.error = "Max retries exceeded"]
    ELSE [r EXCEPT !.pc = "returned", !.value = "undefined"]

FetchResolves(value) ==
    /\ retry.pc = "loop"
    /\ retry.i < retry.maxRetries
    /\ retry' = fetchResolved(retry, value)
    /\ UNCHANGED <<invVars, charVars, combatVars, ownVars, gameVars>>

FetchRejects(error) ==
    /\ retry.pc = "loop"
    /\ retry.i < retry.maxRetries
    /\ retry' = fetchRejected(retry, error)
    /\ UNCHANGED <<invVars, charVars, combatVars, ownVars, gameVars>>

LoopLeft ==
    /\ retry.pc = "loop"
    /\ retry.i >= retry.maxRetries
    /\ retry' = loopLeft(retry)
    /\ UNCHANGED <<invVars, charVars, combatVars, ownVars, gameVars>>

InitRetryVars ==
    \E version \in Versions, maxRetries \in 0..MaxRetries :
        retry = NewRetry(version, maxRetries)

\* No call of fetchWithRetry.
NoRetry == retry = NewRetry("exercise", MaxRetries)

InitCharacterVars ==
    /\ \E cls \in CharacterClasses, a \in AttackValues, d \in DefenseValues :
            chars = [c \in CharIds |->
                        IF c = Player
                        THEN NewCharacter(cls, a, PlayerDefense)
                        ELSE NewCharacter("warrior", OpponentAttack, d)]
    /\ elapsed = cooldownSeconds(chars[Player].cls)
    /\ act = NoAct

NoCharacters ==
    /\ chars = [c \in CharIds |-> NewCharacter("warrior", 0, 1)]
    /\ elapsed = cooldownSeconds("warrior")
    /\ act = NoAct

NoInventory ==
    /\ items = [id \in Ids |-> NoItem]
    /\ call = NoCall

InitCharacter ==
    InitCharacterVars /\ NoInventory /\ NoCombat /\ NoOwnership /\ NoGame /\ NoRetry

NextCharacter ==
    \/ \E t \in CharIds, damage \in DamageAmounts : TakeDamage(t, damage)
    \/ \E t \in CharIds, amount \in HealAmounts : Heal(t, amount)
    \/ \E a \in CharIds, draw \in Draws : \E t \in CharIds \ {a} : Attack(a, t, draw)
    \/ \E exp \in ExperienceAmounts : GainExperience(exp)
    \/ \E t \in {Opponent, NoTarget}, draw \in Draws : UseSpecialAbility(t, draw)
    \/ \E t \in CharIds : HealSpell(t)
    \/ Wait

SpecCharacter == InitCharacter /\ [][NextCharacter]_vars

InitInventory ==
    NoInventory /\ NoCharacters /\ NoCombat /\ NoOwnership /\ NoGame /\ NoRetry

NextInventory ==
    \/ \E item \in Handed : AddItem(item)
    \/ AddItemInvalid
    \/ \E itemId \in Ids, quantity \in RemoveQuantities : RemoveItem(itemId, quantity)
    \/ \E itemId \in Ids : UseItem(itemId)
    \/ \E itemId \in Ids : GetItem(itemId)
    \/ GetAllItems
    \/ \E type \in ItemTypes : GetItemsByType(type)
    \/ GetTotalValue
    \/ GetItemCount
    \/ IsEmpty
    \/ IsFull

SpecInventory == InitInventory /\ [][NextInventory]_vars

InitCombat ==
    InitCombatVars /\ NoInventory /\ NoCharacters /\ NoOwnership /\ NoGame /\ NoRetry

NextCombat ==
    \/ \E rand \in ActionDraws, draw \in CombatDraws : Turn(rand, draw)
    \/ \E rand \in LootDraws : Return(rand)

SpecCombat == InitCombat /\ [][NextCombat]_vars

\* A duel: one player and one living enemy, and draws on which both sides
\* always choose to attack.  The loop of startCombat runs on without
\* waiting, hence the weak fairness.
AttackOnlyDraws ==
    {rand \in ActionDraws : rand < PlayerAttackChance /\ rand < EnemyAttackChance}

InitDuelVars ==
    \E pn \in PlayerNames, cls \in {"warrior", "rogue"}, ps \in Speeds,
       l1 \in EnemyLevels, s1 \in Speeds :
        NewCombat([i \in 1..2 |->
                    IF i = Player
                    THEN NewPlayer(pn, cls, ps)
                    ELSE NewEnemy(FirstEnemyName, l1, s1, BaseHealth)])

InitDuel ==
    InitDuelVars /\ NoInventory /\ NoCharacters /\ NoOwnership /\ NoGame /\ NoRetry

NextDuel ==
    \/ \E rand \in AttackOnlyDraws, draw \in CombatDraws : Turn(rand, draw)
    \/ \E rand \in LootDraws : Return(rand)

SpecDuel == InitDuel /\ [][NextDuel]_vars /\ WF_vars(NextDuel)

InitOwnership ==
    InitOwnershipVars /\ NoInventory /\ NoCharacters /\ NoCombat /\ NoGame /\ NoRetry

NextOwnership ==
    \/ \E inv \in Inventories, ref \in Refs : AddItemTo(inv, ref)
    \/ \E inv \in Inventories, itemId \in Ids, quantity \in OwnedRemoveQuantities :
            RemoveItemFrom(inv, itemId, quantity)
    \/ \E inv \in Inventories, itemId \in Ids : UseItemOf(inv, itemId)

SpecOwnership == InitOwnership /\ [][NextOwnership]_vars

InitGame == InitGameVars /\ NoInventory /\ NoCombat /\ NoOwnership /\ NoRetry

NextGame ==
    \/ \E exp \in ExperienceAmounts : GainExperience(exp)
    \/ \E damage \in DamageAmounts : TakeDamage(Player, damage)
    \/ \E item \in GameItems : AddItem(item)
    \/ SaveGame
    \/ LoadGame

SpecGame == InitGame /\ [][NextGame]_vars

InitLoop == InitLoopVars /\ NoCharacters /\ NoOwnership /\ NoRetry

NextLoop ==
    \/ \E rand \in ExploreDraws, name \in EnemyTypes : Encounter(rand, name)
    \/ \E rand \in ActionDraws, draw \in CombatDraws : Turn(rand, draw)
    \/ \E rand \in LootDraws : Return(rand)
    \/ EndCombat
    \/ \E rand \in ExploreDraws, find \in ExploreDraws, data \in FoundItems :
            Explore(rand, find, data)
    \/ Display
    \/ SaveTurn
    \/ Quit
    \/ ExitLoop

SpecLoop == InitLoop /\ [][NextLoop]_vars

InitAbility ==
    InitAbilityVars /\ NoInventory /\ NoCombat /\ NoOwnership /\ NoGame /\ NoRetry

NextAbility ==
    \/ \E a \in CharIds, draw \in Draws :
            \E t \in (CharIds \ {a}) \cup {NoTarget} : UseSpecialAbilityOf(a, t, draw)
    \/ Tick

SpecAbility == InitAbility /\ [][NextAbility]_vars

NextExperience ==
    \E c \in CharIds, exp \in ExperienceAmounts : GainExperienceOf(c, exp)

SpecExperience == InitCharacter /\ [][NextExperience]_vars

InitRetry ==
    InitRetryVars /\ NoInventory /\ NoCharacters /\ NoCombat /\ NoOwnership /\ NoGame

NextRetry ==
    \/ \E value \in FetchValues : FetchResolves(value)
    \/ \E error \in FetchErrors : FetchRejects(error)
    \/ LoopLeft

SpecRetry == InitRetry /\ [][NextRetry]_vars

(***************************************************************************)
(* Properties of the inventory, checked under SpecInventory.               *)
(***************************************************************************)

\* C1: addItem of an item whose id matches an existing stack-capable entry:
\* when existing.quantity + item.quantity <= maxStack the stored quantity
\* becomes the sum and addItem returns true; otherwise addItem returns false
\* and the stored entry is unchanged (no partial merge).
C1_Stacking ==
    (call.op = "addItem" /\ call.ret # "error"
        /\ call.pre # NoItem /\ call.pre.type = "consumable")
    => IF call.pre.quantity + call.arg.quantity <= ConsumableMaxStack
       THEN /\ call.ret = "true"
            /\ items[call.id] # NoItem
            /\ items[call.id].quantity = call.pre.quantity + call.arg.quantity
       ELSE /\ call.ret = "false"
            /\ items[call.id] = call.pre

\* C1 witness: after earlier calls a stack of 50 refuses 60 more and keeps 50.
C1_Witness ==
    /\ call.op = "addItem"
    /\ call.pre # NoItem /\ call.pre.type = "consumable"
    /\ call.pre.quantity = 50 /\ call.arg.quantity = 60
    /\ call.ret = "false"
    /\ items[call.id].quantity = 50

\* C2: the number of entries never exceeds maxSlots; addItem of an id that is
\* not present returns false whenever the number of entries equals maxSlots;
\* and an addItem that returns false leaves the inventory unchanged.
C2_SlotCapacity ==
    /\ [](/\ size(items) <= MaxSlots
          /\ (call.op = "addItem" /\ call.ret # "error"
                /\ call.pre = NoItem /\ call.preSize = MaxSlots)
             => call.ret = "false")
    /\ [][(call'.op = "addItem" /\ call'.ret = "false") => items' = items]_vars

\* C2 witness: a new id was refused by a full inventory.
C2_Witness ==
    /\ call.op = "addItem" /\ call.arg # NoItem
    /\ call.pre = NoItem /\ call.preSize = MaxSlots
    /\ call.ret = "false"
    /\ size(items) = MaxSlots

\* C3: removeItem(id, r) on an entry of quantity q: with r < q the entry stays
\* with quantity q - r and the item returned has quantity r; with r >= q the
\* entry is deleted and the item returned has quantity q.
C3_RemoveConservation ==
    (call.op = "removeItem" /\ call.pre # NoItem)
    => /\ call.ret = "item"
       /\ call.out.id = call.pre.id
       /\ call.out.type = call.pre.type
       /\ call.out.value = call.pre.value
       /\ IF call.quantity < call.pre.quantity
          THEN /\ items[call.id] # NoItem
               /\ items[call.id].quantity = call.pre.quantity - call.quantity
               /\ call.out.quantity = call.quantity
          ELSE /\ items[call.id] = NoItem
               /\ call.out.quantity = call.pre.quantity

\* C3 witness: more was asked than was stored; the item returned carries the
\* stored quantity and the entry is gone.
C3_Witness ==
    /\ call.op = "removeItem" /\ call.pre # NoItem
    /\ call.quantity > call.pre.quantity /\ call.pre.quantity > 0
    /\ call.out.quantity = call.pre.quantity
    /\ items[call.id] = NoItem

\* C4 as stated: useItem on a usable entry of any stored quantity >= 0
\* returns true, runs the use effect exactly once, lowers the quantity by
\* exactly 1 and deletes the entry exactly when the quantity is then 0.
C4_Original ==
    (call.op = "useItem" /\ call.pre # NoItem /\ call.pre.type = "consumable")
    => /\ call.ret = "true"
       /\ call.effects = 1
       /\ (items[call.id] = NoItem) <=> (call.pre.quantity - 1 = 0)
       /\ items[call.id] # NoItem => items[call.id].quantity = call.pre.quantity - 1

\* C4 amended: useItem on a usable entry of stored quantity >= 1 returns true,
\* runs the use effect exactly once, lowers the quantity by exactly 1 and
\* deletes the entry exactly when the quantity is then 0 (the deletion check
\* sees the lowered quantity: the effect runs before it).  On a usable entry
\* of stored quantity 0 useItem returns true and deletes the entry, and the
\* effect does not run.
C4_UseItem ==
    (call.op = "useItem" /\ call.pre # NoItem /\ call.pre.type = "consumable")
    => /\ call.ret = "true"
       /\ IF call.pre.quantity >= 1
          THEN /\ call.effects = 1
               /\ (items[call.id] = NoItem) <=> (call.pre.quantity - 1 = 0)
               /\ items[call.id] # NoItem
                    => items[call.id] = [call.pre EXCEPT !.quantity = @ - 1]
          ELSE /\ call.effects = 0
               /\ items[call.id] = NoItem

\* C4 witness: the last unit of a stack was used: the effect ran once and the
\* entry was deleted.
C4_Witness ==
    /\ call.op = "useItem" /\ call.pre # NoItem /\ call.pre.type = "consumable"
    /\ call.pre.quantity = 1
    /\ call.ret = "true" /\ call.effects = 1
    /\ items[call.id] = NoItem

\* C5: removeItem on an absent id returns null; useItem on an absent id or on
\* an entry that is not usable returns false; in each case no entry changes
\* and the use effect does not run.
C5_NotFound ==
    /\ [](/\ (call.op = "removeItem" /\ call.pre = NoItem)
             => (call.ret = "null" /\ call.out = NoItem)
          /\ (call.op = "useItem" /\ (call.pre = NoItem \/ call.pre.type # "consumable"))
             => (call.ret = "false" /\ call.effects = 0))
    /\ [][((call'.op = "removeItem" /\ call'.pre = NoItem)
            \/ (call'.op = "useItem"
                 /\ (call'.pre = NoItem \/ call'.pre.type # "consumable")))
          => items' = items]_vars

\* C5 witness: useItem on a stored Weapon returned false and the Weapon stays.
C5_Witness ==
    /\ call.op = "useItem" /\ call.pre # NoItem /\ call.pre.type = "weapon"
    /\ call.ret = "false"
    /\ items[call.id] = call.pre

(***************************************************************************)
(* Properties of the characters, checked under SpecCharacter: in every     *)
(* reachable state, for every argument of the call.                        *)
(***************************************************************************)

\* C6: for every attacker and target with attack >= 0 and defense >= 0, an
\* attack by a living attacker applies a damage >= 1 to the target, also
\* when defense >= attack.
C6_DamageFloor ==
    \A a \in CharIds, t \in CharIds, draw \in Draws :
        LET r == attack(chars, a, t, draw) IN
        (isAlive(chars[a]) /\ chars[a].attack >= 0 /\ chars[t].defense >= 0)
        => (r.err = "none" /\ r.ret >= 1)

\* What an attack that is not a stealth attack deals: 2 * attack on a draw
\* below 0.10, attack otherwise, then minus the defense, and 1 at least.
ExpectedDamage(attacker, target, draw) ==
    Max(1, (IF draw < 10 THEN 2 * attacker.attack ELSE attacker.attack) - target.defense)

\* What the attack of a Rogue in stealth deals: 3 * attack on a draw below
\* 0.50, 2 * attack otherwise, then minus the defense, and 1 at least.
ExpectedStealthDamage(attacker, target, draw) ==
    Max(1, (IF draw < 50 THEN 3 * attacker.attack ELSE 2 * attacker.attack) - target.defense)

C8_HealthInvariant ==
    \A c \in CharIds :
        /\ 0 <= chars[c].health
        /\ chars[c].health <= chars[c].maxHealth
        /\ isAlive(chars[c]) <=> chars[c].health > 0

\* C9: takeDamage with a damage <= 0 fails with the validation error and
\* leaves the health and every other stat of every character unchanged.
C9_ValidationFailure ==
    \A t \in CharIds, damage \in DamageAmounts :
        LET r == takeDamage(chars, t, damage) IN
        damage <= 0 => (r.err = "validation" /\ r.chars = chars)

\* C9 witness: a takeDamage call has failed its validation on a character
\* that was hurt before and keeps the health it had.
C9_Witness ==
    /\ act.op = "takeDamage" /\ act.err = "validation"
    /\ chars[act.target].health > 0
    /\ chars[act.target].health < chars[act.target].maxHealth

\* C10: attack on an attacker that is not alive fails with '<name> cannot
\* attack while defeated' and leaves the target's health unchanged.
C10_DeadAttacker ==
    \A a \in CharIds, t \in CharIds, draw \in Draws :
        LET r == attack(chars, a, t, draw) IN
        ~isAlive(chars[a])
        => (r.err = "defeated" /\ r.chars[t].health = chars[t].health)

(***************************************************************************)
(* Properties of the combat resolver, checked under SpecCombat.            *)
(***************************************************************************)

\* C11: during startCombat, attack is only ever invoked on an actor that is
\* alive at that moment, and the failure 'cannot attack while defeated' is
\* never raised out of the resolver.
C11_AliveActor ==
    /\ thrown # "defeated"
    /\ (phase = "Running" /\ loopContinues(fighters, participants, currentTurn))
        => \A rand \in ActionDraws, draw \in CombatDraws :
              LET r == takeTurn(fighters, participants, combatLog, currentTurn,
                                rand, draw)
              IN r.attacker # NoTarget => isAlive(fighters[r.attacker])

\* C12: a session of one player and one enemy in which both always attack
\* reaches Terminated; the turns taken are bounded by the health the two
\* started with (every turn removes at least 1 health); and the winner is
\* the side whose opponent's health has reached 0.
C12_Termination ==
    /\ <>(phase = "Terminated")
    /\ [](currentTurn + fighters[Player].health + fighters[Opponent].health
            <= 2 * BaseHealth)
    /\ [](phase = "Terminated"
            => /\ (fighters[Player].health = 0) # (fighters[Opponent].health = 0)
               /\ result.winner = IF fighters[Opponent].health = 0
                                  THEN fighters[Player].name
                                  ELSE fighters[Opponent].name)

\* C12 witness: the duel has ended after several turns in which both sides
\* were hit, and the player has won.
C12_Witness ==
    /\ phase = "Terminated"
    /\ currentTurn >= 3
    /\ fighters[Opponent].health = 0
    /\ fighters[Player].health > 0 /\ fighters[Player].health < BaseHealth
    /\ result.winner = fighters[Player].name

\* Every action chosen so far was a defend, and there was one: the log
\* holds defend actions only and no attack has thrown.
AllDefend ==
    /\ Len(combatLog) > 0
    /\ thrown = "none"
    /\ \A i \in 1..Len(combatLog) : combatLog[i].type = "defend"

\* C13: the resolver has no turn cap: a turn in which no attack is made
\* leaves every character as it was, the termination predicate false and
\* startCombat running with currentTurn one higher; so in a session where
\* every action so far was a defend, startCombat is still running, whatever
\* the number of turns taken.
C13_NoTurnCap ==
    /\ [](AllDefend => (phase = "Running"
                         /\ ~isCombatOver(fighters, participants)
                         /\ result = NoResult))
    /\ [][(currentTurn' # currentTurn
            /\ (combatLog' = combatLog
                 \/ combatLog'[Len(combatLog')].type = "defend"))
          => (/\ fighters' = fighters
              /\ currentTurn' = currentTurn + 1
              /\ phase' = "Running"
              /\ ~isCombatOver(fighters', participants'))]_vars

\* C13 witness: every living participant has defended on every turn up to
\* the last turn explored, and startCombat is still running.
C13_Witness ==
    /\ AllDefend
    /\ currentTurn = MaxTurns
    /\ Len(combatLog) = MaxTurns
    /\ phase = "Running"

\* The termination predicate: no living adversary, or the primary not alive.
CombatOver ==
    \/ \A id \in DOMAIN fighters : isPlayer(id) \/ ~isAlive(fighters[id])
    \/ ~isAlive(fighters[Player])

\* C14: the termination predicate is evaluated before every turn: no action
\* is executed (logged, or attempted and thrown) in a state where it holds;
\* startCombat returns only in a state where it holds, and once: after the
\* return nothing changes.
C14_PredicateBeforeTurn ==
    /\ [](phase = "Terminated" => CombatOver)
    /\ [][(combatLog' # combatLog \/ thrown' # thrown \/ currentTurn' # currentTurn)
            => ~CombatOver]_vars
    /\ [][(phase' = "Terminated" /\ phase # "Terminated") => CombatOver]_vars
    /\ [][phase = "Terminated" => UNCHANGED vars]_vars

\* C14 witness: startCombat has returned after several actions, in a state
\* where the player is not alive and an enemy is.
C14_Witness ==
    /\ phase = "Terminated"
    /\ Len(combatLog) >= 3
    /\ Len(result.actions) = Len(combatLog)
    /\ ~isAlive(fighters[Player])
    /\ \E id \in DOMAIN fighters : ~isPlayer(id) /\ isAlive(fighters[id])

\* The sum of level * 25 over the adversaries among the first n fighters that
\* are not alive.
RECURSIVE ExperienceOf(_)
ExperienceOf(n) ==
    IF n = 0
    THEN 0
    ELSE ExperienceOf(n - 1)
            + (IF ~isPlayer(n) /\ ~isAlive(fighters[n])
               THEN fighters[n].level * 25
               ELSE 0)

\* C15: when the session terminates with the primary alive and no living
\* adversary, the winner is the primary's name and the experience is the sum
\* of level * 25 over the adversaries, all of them not alive.
C15_VictoryResult ==
    (phase = "Terminated" /\ isAlive(fighters[Player])
        /\ \A id \in DOMAIN fighters : isPlayer(id) \/ ~isAlive(fighters[id]))
    => /\ result.winner = fighters[Player].name
       /\ result.experience = ExperienceOf(Cardinality(DOMAIN fighters))

\* C15 witness: two adversaries of levels 3 and 5 are defeated, one of them
\* in this fight, and the experience is 200.
C15_Witness ==
    /\ phase = "Terminated" /\ isAlive(fighters[Player])
    /\ DOMAIN fighters = 1..3
    /\ fighters[2].level = 3 /\ fighters[3].level = 5
    /\ ~isAlive(fighters[2]) /\ ~isAlive(fighters[3])
    /\ Len(combatLog) > 0
    /\ result.winner = fighters[Player].name
    /\ result.experience = 200

\* The first adversary of the participant list, and the first living one
\* (NoTarget if there is none).
FirstAdversary ==
    LET at == {i \in 1..Len(participants) : ~isPlayer(participants[i])} IN
    IF at = {} THEN NoTarget
    ELSE participants[CHOOSE i \in at : \A j \in at : i <= j]

FirstLivingAdversary ==
    LET at == {i \in 1..Len(participants) :
                    ~isPlayer(participants[i]) /\ isAlive(fighters[participants[i]])}
    IN IF at = {} THEN NoTarget
       ELSE participants[CHOOSE i \in at : \A j \in at : i <= j]

\* C16 as stated: when the session terminates with the primary not alive,
\* the winner is the first adversary of the participant order, dead or alive.
C16_Original ==
    (phase = "Terminated" /\ ~isAlive(fighters[Player]))
    => (FirstAdversary # NoTarget
        /\ result.winner = fighters[FirstAdversary].name)

\* C16 amended: when the session terminates with the primary not alive, the
\* winner is the first adversary of the participant order that is alive, and
\* no winner is named when no adversary is alive.
C16_DefeatWinner ==
    (phase = "Terminated" /\ ~isAlive(fighters[Player]))
    => result.winner = IF FirstLivingAdversary # NoTarget
                       THEN fighters[FirstLivingAdversary].name
                       ELSE NoWinner

\* C16 witness: the primary was defeated in a fight in which the first
\* adversary of the order is dead; the winner is the adversary behind it.
C16_Witness ==
    /\ phase = "Terminated" /\ ~isAlive(fighters[Player])
    /\ Len(combatLog) > 0
    /\ FirstAdversary # NoTarget /\ ~isAlive(fighters[FirstAdversary])
    /\ FirstLivingAdversary # NoTarget
    /\ fighters[FirstLivingAdversary].name # fighters[FirstAdversary].name
    /\ result.winner = fighters[FirstLivingAdversary].name

\* C17: when the session terminates with the primary not alive, the result
\* carries experience 0 and an empty loot list, whatever the loot draw.
C17_DefeatRewards ==
    (phase = "Terminated" /\ ~isAlive(fighters[Player]))
    => (result.experience = 0 /\ result.loot = <<>>)

\* C18: the participant list holds every character once, in non-increasing
\* speed, characters of equal speed in their input order (the player, then
\* the enemies in the order given); and it never changes.
C18_TurnOrder ==
    /\ [](/\ Len(participants) = Cardinality(DOMAIN fighters)
          /\ {participants[i] : i \in 1..Len(participants)} = DOMAIN fighters
          /\ \A i, j \in 1..Len(participants) :
                i < j => /\ fighters[participants[i]].speed
                            >= fighters[participants[j]].speed
                         /\ fighters[participants[i]].speed
                                = fighters[participants[j]].speed
                            => participants[i] < participants[j])
    /\ [][participants' = participants]_vars

\* C18 witness: late in a fight, the two enemies are tied and stand in their
\* input order ahead of the slower player, who was handed in first.
C18_Witness ==
    /\ participants = <<2, 3, Player>>
    /\ fighters[2].speed = fighters[3].speed
    /\ fighters[Player].speed < fighters[3].speed
    /\ currentTurn >= 3

\* C19: an attack executed by the resolver logs, as the action's damage,
\* what takeDamage returned: max(1, d - defense) for the damage d handed to
\* it, also when that exceeds the health the target had left; the target's
\* health becomes max(0, health - that value).
C19_LoggedDamage ==
    (phase = "Running" /\ loopContinues(fighters, participants, currentTurn))
    => \A rand \in ActionDraws, draw \in CombatDraws :
          LET r == takeTurn(fighters, participants, combatLog, currentTurn,
                            rand, draw)
              entry == r.log[Len(r.log)]
              a == r.attacker
              t == findCharacterByName(fighters, participants, entry.target)
              expected == IF fighters[a].cls = "rogue" /\ fighters[a].stealthActive
                          THEN ExpectedStealthDamage(fighters[a], fighters[t], draw)
                          ELSE ExpectedDamage(fighters[a], fighters[t], draw)
          IN (r.err = "none" /\ r.log # combatLog /\ entry.type = "attack")
             => /\ entry.damage = expected
                /\ r.fighters[t].health = Max(0, fighters[t].health - expected)

\* C19 witness: the last action logged is an attack whose damage is more
\* than the health its target could have had; the target is at 0.
C19_Witness ==
    /\ Len(combatLog) > 0
    /\ LET entry == combatLog[Len(combatLog)]
           t == findCharacterByName(fighters, participants, entry.target)
       IN /\ entry.type = "attack"
          /\ entry.damage > fighters[t].maxHealth
          /\ fighters[t].health = 0

(***************************************************************************)
(* Further properties of the characters, checked under SpecCharacter.      *)
(***************************************************************************)

\* C20: heal(amount) raises the health by min(amount, maxHealth - health)
\* and returns exactly that rise; the health does not exceed maxHealth
\* after it; and heal at full health returns 0 and changes nothing.
C20_Heal ==
    \A t \in CharIds, amount \in HealAmounts :
        LET r == heal(chars, t, amount) IN
        /\ r.err = "none"
        /\ r.chars[t].health
             = chars[t].health + Min(amount, chars[t].maxHealth - chars[t].health)
        /\ r.ret = r.chars[t].health - chars[t].health
        /\ r.chars[t].health <= r.chars[t].maxHealth
        /\ chars[t].health = chars[t].maxHealth => (r.ret = 0 /\ r.chars = chars)

\* C21: gainExperience(exp) adds exp to the experience and returns true
\* exactly when the sum reaches level * 100; then the level rises by exactly
\* 1, the experience is 0, maxHealth, attack and defense are higher and the
\* health is the new maxHealth; otherwise it returns false, the level is
\* unchanged and the experience is the sum.  No other character changes.
C21_GainExperience ==
    \A c \in CharIds, exp \in ExperienceAmounts :
        LET r == gainExperience(chars, c, exp)
            before == chars[c]
            after == r.chars[c]
            sum == before.experience + exp
        IN /\ r.err = "none"
           /\ r.ret = (IF sum >= before.level * 100 THEN 1 ELSE 0)
           /\ \A o \in CharIds \ {c} : r.chars[o] = chars[o]
           /\ IF sum >= before.level * 100
              THEN /\ after.level = before.level + 1
                   /\ after.experience = 0
                   /\ after.maxHealth > before.maxHealth
                   /\ after.attack > before.attack
                   /\ after.defense > before.defense
                   /\ after.health = after.maxHealth
              ELSE /\ after.level = before.level
                   /\ after.experience = sum
                   /\ after = [before EXCEPT !.experience = sum]

\* C21 witness: gainExperience has returned true on the player: the level
\* is 2, the experience 0 and the health the raised maxHealth.
C21_Witness ==
    /\ act.op = "gainExperience" /\ act.ret = 1
    /\ chars[Player].level = 2
    /\ chars[Player].experience = 0
    /\ chars[Player].maxHealth = BaseHealth + 2 * StatIncrease
    /\ chars[Player].health = chars[Player].maxHealth

(***************************************************************************)
(* Further properties of the inventory, checked under SpecInventory.       *)
(***************************************************************************)

\* The sum of value * quantity, and of quantity, over the slots 1..n.
RECURSIVE ValueOfSlots(_)
ValueOfSlots(n) ==
    IF n = 0
    THEN 0
    ELSE ValueOfSlots(n - 1)
            + (IF items[n] # NoItem THEN items[n].value * items[n].quantity ELSE 0)

RECURSIVE QuantityOfSlots(_)
QuantityOfSlots(n) ==
    IF n = 0
    THEN 0
    ELSE QuantityOfSlots(n - 1)
            + (IF items[n] # NoItem THEN items[n].quantity ELSE 0)

\* The names of the query methods.
Queries ==
    {"getItem", "getAllItems", "getItemsByType", "getTotalValue",
     "getItemCount", "isEmpty", "isFull"}

\* C22: after any sequence of addItem, removeItem and useItem, getTotalValue
\* is the sum of value * quantity over the slots, getItemCount the sum of
\* the quantities, isEmpty holds exactly when there are 0 slots and isFull
\* exactly when the number of slots is >= maxSlots; a query that was called
\* has returned that value; and a call of a query changes no slot and no
\* quantity.
C22_PureQueries ==
    /\ [](/\ getTotalValue(items) = ValueOfSlots(MaxSlots + 1)
          /\ getItemCount(items) = QuantityOfSlots(MaxSlots + 1)
          /\ isEmpty(items) <=> (\A id \in Ids : items[id] = NoItem)
          /\ isFull(items) <=> (Cardinality({id \in Ids : items[id] # NoItem})
                                    >= MaxSlots)
          /\ call.op = "getTotalValue" => call.answer = ValueOfSlots(MaxSlots + 1)
          /\ call.op = "getItemCount" => call.answer = QuantityOfSlots(MaxSlots + 1)
          /\ call.op = "isEmpty"
                => (call.ret = "true" <=> (\A id \in Ids : items[id] = NoItem))
          /\ call.op = "isFull"
                => (call.ret = "true" <=> call.preSize >= MaxSlots))
    /\ [][call'.op \in Queries => items' = items]_vars

\* C22 witness: getItemCount was called on a full inventory that holds a
\* stack lowered by earlier calls, and has returned more than the number of
\* slots; a Weapon is among the entries.
C22_Witness ==
    /\ call.op = "getItemCount"
    /\ size(items) = MaxSlots
    /\ call.answer > size(items)
    /\ \E id \in Ids : items[id] # NoItem /\ items[id].type = "consumable"
                            /\ items[id].quantity = 49
    /\ \E id \in Ids : items[id] # NoItem /\ items[id].type = "weapon"

(***************************************************************************)
(* Properties of two inventories, checked under SpecOwnership.             *)
(***************************************************************************)

\* The quantity an inventory holds under a key (0 if there is no entry).
StoredQuantity(objs, store, id) ==
    IF store[id] = NoObject THEN 0 ELSE objs[store[id]].quantity

\* C23: an item entry is owned by one inventory only: no object is stored in
\* two inventories, and no addItem, removeItem or useItem on one inventory
\* changes a quantity stored in the other, also after the same item was
\* handed to addItem of both.
C23_Ownership ==
    \A i \in Inventories : \A j \in Inventories \ {i} : \A id \in Ids :
        /\ stores[i][id] # NoObject => stores[i][id] # stores[j][id]
        /\ \A ref \in Refs :
              StoredQuantity(addItem(objects, stores[i], ref).objects, stores[j], id)
                = StoredQuantity(objects, stores[j], id)
        /\ \A itemId \in Ids, quantity \in OwnedRemoveQuantities :
              StoredQuantity(removeItem(objects, stores[i], itemId, quantity).objects,
                             stores[j], id)
                = StoredQuantity(objects, stores[j], id)
        /\ \A itemId \in Ids :
              StoredQuantity(useItem(objects, stores[i], itemId).objects, stores[j], id)
                = StoredQuantity(objects, stores[j], id)

(***************************************************************************)
(* Properties of the game session, checked under SpecGame.                 *)
(***************************************************************************)

\* C24: a game state written by saveGame and then read by loadGame gives the
\* same player level, experience and stats and the same inventory item ids
\* and quantities as at the time of saving.
C24_RoundTrip ==
    LET loaded == loadGame(saveGame(chars, items), chars, items)
        before == chars[Player]
        after == loaded.chars[Player]
    IN /\ loaded.err = "none"
       /\ after.level = before.level
       /\ after.experience = before.experience
       /\ after.health = before.health
       /\ after.maxHealth = before.maxHealth
       /\ after.mana = before.mana
       /\ after.maxMana = before.maxMana
       /\ after.attack = before.attack
       /\ after.defense = before.defense
       /\ after.speed = before.speed
       /\ \A id \in Ids :
             /\ (loaded.items[id] = NoItem) <=> (items[id] = NoItem)
             /\ loaded.items[id].id = items[id].id
             /\ loaded.items[id].quantity = items[id].quantity

(***************************************************************************)
(* Further properties of the combat resolver, checked under SpecCombat.    *)
(***************************************************************************)

\* startCombat is in its loop and the loop condition holds: a turn follows.
TurnFollows ==
    phase = "Running" /\ loopContinues(fighters, participants, currentTurn)

\* participants[turnIndex mod participants.length]
Current == participants[(currentTurn % Len(participants)) + 1]

\* C25: on each pass of the loop the participant that acts is
\* participants[turnIndex mod participants.length]; when that participant
\* is not alive no action is logged and no character changes; and every
\* pass of the loop advances turnIndex by exactly 1.
C25_TurnIndex ==
    /\ [](TurnFollows
            => \A rand \in ActionDraws, draw \in CombatDraws :
                  LET r == takeTurn(fighters, participants, combatLog,
                                    currentTurn, rand, draw)
                  IN /\ r.attacker # NoTarget => r.attacker = Current
                     /\ ~isAlive(fighters[Current])
                          => (r.log = combatLog /\ r.fighters = fighters
                              /\ r.err = "none"))
    /\ [][(TurnFollows /\ <<fighters, combatLog, currentTurn, thrown>>'
                            # <<fighters, combatLog, currentTurn, thrown>>)
            => currentTurn' = currentTurn + 1]_vars

\* C26: the combat log is append-only and chronological: a step adds at
\* most one entry, at the end, and leaves the earlier ones as they were;
\* every turn taken by a living participant appends exactly one action,
\* whose actor is that participant; attack entries carry a damage and
\* defend entries carry none.
C26_AppendOnlyLog ==
    /\ [](\A i \in 1..Len(combatLog) :
            /\ combatLog[i].type = "attack" => combatLog[i].damage # NoDamage
            /\ combatLog[i].type = "defend" => combatLog[i].damage = NoDamage)
    /\ [](TurnFollows
            => \A rand \in ActionDraws, draw \in CombatDraws :
                  LET r == takeTurn(fighters, participants, combatLog,
                                    currentTurn, rand, draw)
                  IN isAlive(fighters[Current])
                     => /\ Len(r.log) = Len(combatLog) + 1
                        /\ r.log[Len(r.log)].actor = fighters[Current].name)
    /\ [][\/ combatLog' = combatLog
          \/ /\ Len(combatLog') = Len(combatLog) + 1
             /\ SubSeq(combatLog', 1, Len(combatLog)) = combatLog]_vars

\* C27: on the primary's turn the action is an attack on the first living
\* adversary in turn order when the draw is < 0.7, or when 0.7 <= draw < 0.9
\* and the primary's mana is >= 15, and defend otherwise; on an adversary's
\* turn it is an attack on the primary when the draw is < 0.8 and defend
\* otherwise; flee is never chosen and the target chosen is never dead.
C27_ActionPolicy ==
    /\ \A i \in 1..Len(combatLog) : combatLog[i].type \in {"attack", "defend"}
    /\ TurnFollows
        => \A rand \in ActionDraws :
              /\ LET action == choosePlayerAction(fighters, Player,
                                                  FirstLivingAdversary, rand)
                 IN IF rand < 70 \/ (rand < 90 /\ fighters[Player].mana >= 15)
                    THEN /\ action.type = "attack"
                         /\ action.actor = fighters[Player].name
                         /\ action.target = fighters[FirstLivingAdversary].name
                         /\ isAlive(fighters[FirstLivingAdversary])
                    ELSE action.type = "defend" /\ action.target = "none"
              /\ \A enemy \in DOMAIN fighters \ {Player} :
                    LET action == chooseEnemyAction(fighters, enemy, Player, rand)
                    IN IF rand < 80
                       THEN /\ action.type = "attack"
                            /\ action.actor = fighters[enemy].name
                            /\ action.target = fighters[Player].name
                            /\ isAlive(fighters[Player])
                       ELSE action.type = "defend" /\ action.target = "none"
              /\ \A draw \in CombatDraws :
                    LET r == takeTurn(fighters, participants, combatLog,
                                      currentTurn, rand, draw)
                        expected == IF isPlayer(Current)
                                    THEN choosePlayerAction(fighters, Player,
                                                            FirstLivingAdversary,
                                                            rand)
                                    ELSE chooseEnemyAction(fighters, Current,
                                                           Player, rand)
                    IN (isAlive(fighters[Current]) /\ r.err = "none")
                       => /\ r.log # combatLog
                          /\ r.log[Len(r.log)].type = expected.type
                          /\ r.log[Len(r.log)].actor = expected.actor
                          /\ r.log[Len(r.log)].target = expected.target

\* C27 witness: a primary with less than 15 mana has defended and an
\* adversary has attacked it; no adversary carries the primary's name.
C27_Witness ==
    /\ fighters[Player].mana < 15
    /\ \E i \in 1..Len(combatLog) :
            combatLog[i].type = "defend" /\ combatLog[i].actor = fighters[Player].name
    /\ \E i \in 1..Len(combatLog) :
            /\ combatLog[i].type = "attack"
            /\ combatLog[i].target = fighters[Player].name
    /\ \A id \in DOMAIN fighters \ {Player} :
            fighters[id].name # fighters[Player].name

\* C28: the loot is computed from one draw, once per session, whatever the
\* number of adversaries: it is empty when the draw is >= 0.3, one potion
\* when 0.1 <= draw < 0.3, a potion followed by a sword when the draw is
\* < 0.1; it never has more than 2 items and never a sword without a potion.
C28_Loot ==
    /\ \A rand \in LootDraws :
          LET loot == getCombatResult(fighters, participants, combatLog, rand).loot
          IN /\ rand >= 30 => loot = <<>>
             /\ (10 <= rand /\ rand < 30) => loot = <<"potion">>
             /\ rand < 10 => loot = <<"potion", "sword">>
    /\ result.loot \in {<<>>, <<"potion">>, <<"potion", "sword">>}
    /\ phase # "Terminated" => result.loot = <<>>

\* C28 witness: a session with two adversaries, both defeated in the fight
\* or before it, has ended with a potion followed by a sword.
C28_Witness ==
    /\ phase = "Terminated"
    /\ Cardinality(DOMAIN fighters) > 2
    /\ Len(combatLog) > 0
    /\ \A id \in DOMAIN fighters \ {Player} : ~isAlive(fighters[id])
    /\ result.loot = <<"potion", "sword">>

\* C29: within a session the membership of the participant list is fixed
\* and no character's health ever rises: a participant whose health has
\* reached 0 stays in the list, stays not alive, and performs no further
\* action (no attack of a character that is not alive is carried out).
C29_DefeatedStay ==
    /\ []({participants[i] : i \in 1..Len(participants)} = DOMAIN fighters)
    /\ [](TurnFollows
            => \A rand \in ActionDraws, draw \in CombatDraws :
                  LET r == takeTurn(fighters, participants, combatLog,
                                    currentTurn, rand, draw)
                  IN (r.attacker # NoTarget /\ r.err = "none")
                     => isAlive(fighters[r.attacker]))
    /\ [][/\ participants' = participants
          /\ DOMAIN fighters' = DOMAIN fighters
          /\ \A id \in DOMAIN fighters :
                /\ fighters'[id].health <= fighters[id].health
                /\ ~isAlive(fighters[id]) => ~isAlive(fighters'[id])]_vars

\* The characters a turn has damaged.
Damaged(r) == {id \in DOMAIN fighters : r.fighters[id].health # fighters[id].health}

\* C30: executeAction applies each action to the participants it was chosen
\* for: the character whose attack is invoked is the participant whose turn
\* it is, and the only character damaged is the target the policy selected
\* (the first living adversary on the primary's turn, the primary on an
\* adversary's turn), also when two participants have the same name.
C30_ChosenParticipants ==
    TurnFollows
    => \A rand \in ActionDraws, draw \in CombatDraws :
          LET r == takeTurn(fighters, participants, combatLog, currentTurn,
                            rand, draw)
          IN /\ r.attacker # NoTarget => r.attacker = Current
             /\ Damaged(r) \subseteq {IF isPlayer(Current)
                                       THEN FirstLivingAdversary
                                       ELSE Player}

(***************************************************************************)
(* Properties of the game loop, checked under SpecLoop.                    *)
(***************************************************************************)
\* C31: every combat Game.startCombat starts is fought against a newly
\* created adversary that is alive when the combat starts: whenever the
\* loop enters a combat, the enemy handed to the resolver is alive, has
\* its full health, and the resolver's log is empty.
C31_FreshEnemy ==
    [][(session.pc = "loop" /\ session'.pc = "combat")
        => /\ isAlive(fighters'[2])
           /\ fighters'[2].health = fighters'[2].maxHealth
           /\ combatLog' = <<>>]_vars

(***************************************************************************)
(* Further properties of the inventory, checked under SpecInventory.       *)
(***************************************************************************)
\* C32: stack ceiling: in every state reached by addItem, removeItem and
\* useItem calls, every stack-capable entry has a quantity <= its maxStack,
\* also when the entry was first inserted into a new slot.
C32_StackCeiling ==
    \A id \in Ids :
        (items[id] # NoItem /\ isStackable(items[id]))
        => items[id].quantity <= maxStack(items[id])

\* C33: addItem of an item whose id has an entry that is not stack-capable
\* never merges quantities: with fewer entries than maxSlots it returns
\* true, the entry of that id becomes the item handed in and the number of
\* entries is unchanged; with maxSlots entries it returns false and the
\* inventory is unchanged.
C33_NonStackableSameId ==
    (call.op = "addItem" /\ call.ret # "error"
        /\ call.pre # NoItem /\ ~isStackable(call.pre))
    => /\ size(items) = call.preSize
       /\ IF call.preSize < MaxSlots
          THEN call.ret = "true" /\ items[call.id] = call.arg
          ELSE call.ret = "false" /\ items[call.id] = call.pre

\* C33 witness: a Weapon of quantity 1 was stored, and addItem of a Weapon
\* of the same id and quantity 2 has put that item in its place.
C33_Witness ==
    /\ call.op = "addItem" /\ call.ret = "true"
    /\ call.pre # NoItem /\ call.pre.type = "weapon" /\ call.pre.quantity = 1
    /\ call.arg.type = "weapon" /\ call.arg.quantity = 2
    /\ items[call.id].quantity = 2
    /\ size(items) = call.preSize

(***************************************************************************)
(* Further properties of the combat resolver, checked under SpecCombat.    *)
(***************************************************************************)
\* The stats of a character.
StatsOf(c) ==
    [health |-> c.health, maxHealth |-> c.maxHealth, mana |-> c.mana,
     maxMana |-> c.maxMana, attack |-> c.attack, defense |-> c.defense,
     speed |-> c.speed]

\* The characters whose stats differ between two states of the fighters.
StatsChanged(before, after) ==
    {id \in DOMAIN before : StatsOf(after[id]) # StatsOf(before[id])}

\* C34: the frame of a combat action.  A defend and a flee, executed for
\* any participant, change no character's stats.  A turn that attacks
\* changes at most the health of one character, which is not the attacker;
\* on an adversary's turn that character is the primary, and on the
\* primary's turn it is an adversary.
C34_ActionFrame ==
    /\ \A type \in {"defend", "flee"}, id \in DOMAIN fighters, draw \in CombatDraws :
          StatsChanged(fighters,
                       executeAction(fighters, participants, combatLog,
                                     CombatAction(type, fighters[id].name, "none"),
                                     draw).fighters) = {}
    /\ TurnFollows
       => \A rand \in ActionDraws, draw \in CombatDraws :
             LET r == takeTurn(fighters, participants, combatLog, currentTurn,
                               rand, draw)
                 changed == StatsChanged(fighters, r.fighters)
             IN /\ Cardinality(changed) <= 1
                /\ \A id \in changed :
                      /\ id # r.attacker
                      /\ id # Current
                      /\ isPlayer(id) # isPlayer(Current)
                      /\ StatsOf(r.fighters[id])
                            = [StatsOf(fighters[id]) EXCEPT
                                    !.health = r.fighters[id].health]

(***************************************************************************)
(* Further properties of the characters, checked under SpecCharacter.      *)
(***************************************************************************)
\* C35: Berserker Rage doubles the attack for the single strike only: after
\* Warrior.useSpecialAbility the warrior's attack stat is what it was
\* before the call, whether the call returns or throws.
C35_RageRestoresAttack ==
    chars[Player].cls = "warrior"
    => \A t \in {Opponent, NoTarget}, draw \in Draws,
          since \in {0, cooldownSeconds("warrior")} :
            cooledAbility(chars, since, Player, t, draw).call.chars[Player].attack
                = chars[Player].attack

(***************************************************************************)
(* Properties of the abilities, checked under SpecAbility.                 *)
(***************************************************************************)
\* C36: Fireball ignores defense: Mage.useSpecialAbility with a mana >= 25
\* and a target, once the cooldown lets it through, spends 25 mana and
\* lowers the target's health by attack + 20 whatever the target's defense
\* (to 0 if the target has less health than that).
C36_FireballIgnoresDefense ==
    \A a \in CharIds : \A t \in CharIds \ {a} :
        (chars[a].cls = "mage" /\ chars[a].mana >= FireballCost
            /\ elapsed >= cooldownSeconds("mage"))
        => LET r == cooledAbility(chars, elapsed, a, t, 50).call IN
           /\ r.err = "none"
           /\ r.chars[a].mana = chars[a].mana - FireballCost
           /\ r.chars[t].health
                = Max(0, chars[t].health - (chars[a].attack + FireballBonus))

C38_ExperienceInvariant ==
    /\ [](/\ \A c \in CharIds :
                /\ chars[c].level >= 1
                /\ 0 <= chars[c].experience
                /\ chars[c].experience < chars[c].level * 100
          /\ \A c \in CharIds, exp \in ExperienceAmounts :
                LET after == gainExperience(chars, c, exp).chars[c] IN
                /\ after.level \in {chars[c].level, chars[c].level + 1}
                /\ after.level > chars[c].level => after.experience = 0
                /\ after.experience < after.level * 100)
    /\ [][\A c \in CharIds :
            /\ chars'[c].level >= chars[c].level
            /\ chars'[c].level <= chars[c].level + 1]_vars

\* C38 witness: after several calls the player is at level 3 with an
\* experience of 160, and the last call on it has not levelled it up.
C38_Witness ==
    /\ act.op = "gainExperience" /\ act.actor = Player /\ act.ret = 0
    /\ chars[Player].level = 3
    /\ chars[Player].experience = 160

(***************************************************************************)
(* Further properties of the game loop, checked under SpecLoop.            *)
(***************************************************************************)
\* The step that ends Game.startCombat, and the player has won: it is alive
\* and the enemy is not.
CombatEnds == session.pc = "combat" /\ session'.pc = "loop"
PlayerHasWon ==
    /\ isAlive(fighters[Player])
    /\ ~isAlive(fighters[2])
    /\ result.winner = fighters[Player].name

\* C39: once the player is defeated in a combat, the game grants no
\* experience and adds no loot for that combat, and starts no further pass
\* of the loop and no further combat: the only step left to the loop is its
\* exit.  Experience and loot are applied only when the winner of the
\* combat is the player.
C39_AfterDefeat ==
    /\ [][(CombatEnds /\ ~isAlive(fighters[Player]))
            => (fighters' = fighters /\ items' = items)]_vars
    /\ [][(CombatEnds /\ (fighters' # fighters \/ items' # items))
            => PlayerHasWon]_vars
    /\ [][(~isAlive(fighters[Player]) /\ session.pc # "combat")
            => /\ session.pc = "loop"
               /\ session' = [session EXCEPT !.pc = "exited"]
               /\ UNCHANGED <<fighters, items, saveFile, combatVars>>]_vars
    /\ []((~isAlive(fighters[Player]) /\ session.pc = "loop")
            => ~gameLoopContinues(session, fighters))

\* C39 witness: the player was defeated in a combat whose result carries
\* loot; the loop has exited, and the player has no experience and the
\* inventory no item.
C39_Witness ==
    /\ session.pc = "exited"
    /\ ~isAlive(fighters[Player])
    /\ phase = "Terminated" /\ result.loot # <<>>
    /\ result.winner = fighters[2].name
    /\ fighters[Player].experience = 0
    /\ items = [id \in Ids |-> NoItem]

(***************************************************************************)
(* Properties of fetchWithRetry, checked under SpecRetry.                  *)
(***************************************************************************)
\* The invocations of fetchFn that were rejected.
Rejected(calls) == {k \in 1..Len(calls) : calls[k] \in FetchErrors}

\* C40: fetchWithRetry(fetchFn, maxRetries) invokes fetchFn at most
\* maxRetries times; once an invocation has resolved, its value is returned
\* and fetchFn is not invoked again; when maxRetries (>= 1) invocations
\* have all been rejected, the error of the last one is thrown; and after
\* the call has returned or thrown nothing is invoked any more.
C40_FetchWithRetry ==
    /\ [](/\ Len(retry.calls) <= retry.maxRetries
          /\ \A k \in 1..Len(retry.calls) :
                retry.calls[k] \in FetchValues
                => /\ k = Len(retry.calls)
                   /\ retry.pc = "returned"
                   /\ retry.value = retry.calls[k]
          /\ (retry.maxRetries >= 1 /\ Len(retry.calls) = retry.maxRetries
                /\ Rejected(retry.calls) = 1..Len(retry.calls))
             => /\ retry.pc = "thrown"
                /\ retry.error = retry.calls[Len(retry.calls)]
          /\ (retry.maxRetries >= 1 /\ retry.pc = "thrown")
             => Len(retry.calls) = retry.maxRetries
          /\ (retry.maxRetries >= 1 /\ retry.pc = "returned")
             => retry.value \in FetchValues)
    /\ [][retry.pc # "loop" => retry' = retry]_vars

\* C40 witness: with maxRetries = 3, two rejected invocations and then one
\* that resolved: 3 invocations, and its value is returned.
C40_Witness ==
    /\ retry.maxRetries = 3
    /\ retry.calls = <<"network", "timeout", "data">>
    /\ retry.pc = "returned" /\ retry.value = "data"

====
